---------------------------- MODULE Spec2Model ----------------------------
(***************************************************************************)
(* A model of gorilla/muxy: the scheme/host/path trie router               *)
(* (src/matcher.go, src/parser.go, src/unnamed/part_008) and the later     *)
(* path-only matcher (src/matchers/mpath/mpath.go behind src/router.go).   *)
(*                                                                         *)
(* Go strings are modelled as sequences of one-character strings, so that  *)
(* splitting on a separator and slicing by byte offsets are computed the   *)
(* way the code computes them.                                             *)
(***************************************************************************)
EXTENDS Integers, Sequences, FiniteSets, TLC

\* ------------------------------------------------------------------------
\* Bounds of the model

\* the most routes a router holds
MaxRoutes == 3

\* the longest name a route is given
MaxNoun == 2

\* the longest pattern given to the parsers
\* the requests that are served at the same time
MaxInFlight == 2

\* the middleware a router holds at most
MaxChain == 4

\* the sub-routers created at most
MaxGroups == 2

\* the routes that are given middleware at most
MaxWrapped == 1

MaxLen == 5

\* ------------------------------------------------------------------------
\* Go string primitives

\* the nil pointer: no route (a string no pattern equals)
NIL == <<"nil">>

\* the nil pointer: no trie node (a node identifier no node has)
NoNode == << <<"nil">> >>

\* s[lo:hi]
Slice(s, lo, hi) == SubSeq(s, lo + 1, hi)

\* s[lo:]
From(s, lo) == SubSeq(s, lo + 1, Len(s))

\* strings.IndexByte(s, c): index of the first c in s, or -1
IndexByte(s, c) ==
    IF \E i \in 1..Len(s) : s[i] = c
    THEN (CHOOSE i \in 1..Len(s) : s[i] = c /\ \A j \in 1..(i - 1) : s[j] # c) - 1
    ELSE -1

\* A rune outside ASCII is written by its code point: "U+00E9" is the letter
\* e with acute accent, "U+0663" the Arabic-Indic digit three.

\* unicode.IsLetter, on the alphabet of the model
IsLetter(r) ==
    r \in {"a", "b", "c", "d", "e", "f", "g", "h", "i", "j", "k", "l", "m", "n", "o",
           "p", "q", "r", "s", "t", "u", "v", "w", "x", "y", "z", "V", "U+00E9"}

\* unicode.IsDigit, on the alphabet of the model
IsDigit(r) == r \in {"1", "2", "U+0663"}

\* ------------------------------------------------------------------------
\* src/parser.go: the pattern parser of the scheme/host/path router

eof == "eof"

staticPart == "static"
variablePart == "variable"
wildcardPart == "wildcard"

\* parser.next: the next rune and the position after it
next(src, pos) ==
    IF pos >= Len(src) THEN [r |-> eof, pos |-> pos]
    ELSE [r |-> src[pos + 1], pos |-> pos + 1]

\* the loop of parser.parseVariable over the rest of a variable name
RECURSIVE parseVariableLoop(_, _, _)
parseVariableLoop(src, sep, pos) ==
    LET n == next(src, pos) IN
    IF n.r = "}" THEN [err |-> FALSE, pos |-> n.pos]
    ELSE IF n.r = eof THEN [err |-> TRUE, pos |-> n.pos]
    ELSE IF n.r = sep THEN [err |-> TRUE, pos |-> n.pos]
    ELSE IF n.r # "_" /\ ~IsLetter(n.r) /\ ~IsDigit(n.r) THEN [err |-> TRUE, pos |-> n.pos]
    ELSE parseVariableLoop(src, sep, n.pos)

\* parser.parseVariable: consumes a variable name and its closing brace
parseVariable(src, sep, pos) ==
    LET n1 == next(src, pos) IN
    IF n1.r = eof THEN [err |-> TRUE, pos |-> n1.pos]
    ELSE IF n1.r = "*" THEN
        LET n2 == next(src, n1.pos) IN
        IF n2.r # "}" THEN [err |-> TRUE, pos |-> n2.pos]
        ELSE LET n3 == next(src, n2.pos) IN
             IF n3.r # eof THEN [err |-> TRUE, pos |-> n3.pos]
             ELSE [err |-> FALSE, pos |-> n3.pos]
    ELSE IF n1.r # "_" /\ ~IsLetter(n1.r) THEN [err |-> TRUE, pos |-> n1.pos]
    ELSE parseVariableLoop(src, sep, n1.pos)

RECURSIVE parseParts(_, _, _, _)
RECURSIVE parseStaticLoop(_, _, _, _, _)

\* the loop of parser.parseParts over the rest of a static segment
parseStaticLoop(src, sep, pin, pos, dst) ==
    LET n == next(src, pos) IN
    IF n.r = sep
    THEN parseParts(src, sep, n.pos,
                    Append(dst, [typ |-> staticPart, val |-> Slice(src, pin, n.pos - 1)]))
    ELSE IF n.r = eof
    THEN [err |-> FALSE,
          dst |-> Append(dst, [typ |-> staticPart, val |-> Slice(src, pin, n.pos)])]
    ELSE IF n.r \in {"{", "}"} THEN [err |-> TRUE, dst |-> <<>>]
    ELSE parseStaticLoop(src, sep, pin, n.pos, dst)

\* parser.parseParts: consumes all segments from pos on
parseParts(src, sep, pos, dst) ==
    LET pin == pos
        n1 == next(src, pos)
    IN
    IF n1.r = eof
    THEN [err |-> FALSE, dst |-> Append(dst, [typ |-> staticPart, val |-> <<>>])]
    ELSE IF n1.r = "{"
    THEN LET pv == parseVariable(src, sep, n1.pos) IN
         IF pv.err THEN [err |-> TRUE, dst |-> <<>>]
         ELSE LET val == Slice(src, pin + 1, pv.pos - 1)
                  prt == IF val = <<"*">> THEN [typ |-> wildcardPart, val |-> <<>>]
                         ELSE [typ |-> variablePart, val |-> val]
                  n2 == next(src, pv.pos)
              IN
              IF n2.r = eof THEN [err |-> FALSE, dst |-> Append(dst, prt)]
              ELSE IF n2.r = sep THEN parseParts(src, sep, n2.pos, Append(dst, prt))
              ELSE [err |-> TRUE, dst |-> <<>>]
    ELSE IF n1.r = sep THEN [err |-> TRUE, dst |-> <<>>]
    ELSE parseStaticLoop(src, sep, pin, n1.pos, dst)

\* parse(s, sep): the typed segments of s, or an error
parse(s, sep) ==
    LET s1 == IF s # <<>> /\ s[1] = sep THEN From(s, 1) ELSE s IN
    parseParts(s1, sep, 0, <<>>)


\* ------------------------------------------------------------------------
\* src/unnamed/part_000 (second version): the parser that splits the pattern
\* at the separators and percent-decodes the static segments

\* string(byte): the printable ASCII characters, and "xNN" for the byte NN
\* that is none, for the double quote, the backslash and the backquote
byteChars ==
    <<"x00", "x01", "x02", "x03", "x04", "x05", "x06", "x07", "x08", "x09",
      "x0A", "x0B", "x0C", "x0D", "x0E", "x0F", "x10", "x11", "x12", "x13",
      "x14", "x15", "x16", "x17", "x18", "x19", "x1A", "x1B", "x1C", "x1D",
      "x1E", "x1F", " ", "!", "x22", "#", "$", "%", "&", "'", "(", ")", "*",
      "+", ",", "-", ".", "/", "0", "1", "2", "3", "4", "5", "6", "7", "8",
      "9", ":", ";", "<", "=", ">", "?", "@", "A", "B", "C", "D", "E", "F",
      "G", "H", "I", "J", "K", "L", "M", "N", "O", "P", "Q", "R", "S", "T",
      "U", "V", "W", "X", "Y", "Z", "[", "x5C", "]", "^", "_", "x60", "a", "b",
      "c", "d", "e", "f", "g", "h", "i", "j", "k", "l", "m", "n", "o", "p",
      "q", "r", "s", "t", "u", "v", "w", "x", "y", "z", "{", "|", "}", "~",
      "x7F", "x80", "x81", "x82", "x83", "x84", "x85", "x86", "x87", "x88",
      "x89", "x8A", "x8B", "x8C", "x8D", "x8E", "x8F", "x90", "x91", "x92",
      "x93", "x94", "x95", "x96", "x97", "x98", "x99", "x9A", "x9B", "x9C",
      "x9D", "x9E", "x9F", "xA0", "xA1", "xA2", "xA3", "xA4", "xA5", "xA6",
      "xA7", "xA8", "xA9", "xAA", "xAB", "xAC", "xAD", "xAE", "xAF", "xB0",
      "xB1", "xB2", "xB3", "xB4", "xB5", "xB6", "xB7", "xB8", "xB9", "xBA",
      "xBB", "xBC", "xBD", "xBE", "xBF", "xC0", "xC1", "xC2", "xC3", "xC4",
      "xC5", "xC6", "xC7", "xC8", "xC9", "xCA", "xCB", "xCC", "xCD", "xCE",
      "xCF", "xD0", "xD1", "xD2", "xD3", "xD4", "xD5", "xD6", "xD7", "xD8",
      "xD9", "xDA", "xDB", "xDC", "xDD", "xDE", "xDF", "xE0", "xE1", "xE2",
      "xE3", "xE4", "xE5", "xE6", "xE7", "xE8", "xE9", "xEA", "xEB", "xEC",
      "xED", "xEE", "xEF", "xF0", "xF1", "xF2", "xF3", "xF4", "xF5", "xF6",
      "xF7", "xF8", "xF9", "xFA", "xFB", "xFC", "xFD", "xFE", "xFF">>

hexDigits ==
    <<"0", "1", "2", "3", "4", "5", "6", "7", "8", "9", "a", "b", "c", "d", "e", "f",
      "A", "B", "C", "D", "E", "F">>

isHex(b) == \E i \in 1..Len(hexDigits) : hexDigits[i] = b

\* hexValue: the value of a hex digit
hexValue(b) ==
    LET i == CHOOSE i \in 1..Len(hexDigits) : hexDigits[i] = b IN
    IF i <= 16 THEN i - 1 ELSE i - 7

\* the first loop of percentDecode: whether every '%' from offset i on is
\* followed by two hex digits
RECURSIVE percentValid(_, _)
percentValid(s, i) ==
    IF i >= Len(s) THEN TRUE
    ELSE IF s[i + 1] # "%" THEN percentValid(s, i + 1)
    ELSE IF i + 2 < Len(s) /\ isHex(s[i + 2]) /\ isHex(s[i + 3])
    THEN percentValid(s, i + 3)
    ELSE FALSE

\* the second loop of percentDecode: the bytes of s with every escape
\* replaced by its byte
RECURSIVE percentBytes(_, _)
percentBytes(s, i) ==
    IF i >= Len(s) THEN <<>>
    ELSE IF s[i + 1] # "%" THEN <<s[i + 1]>> \o percentBytes(s, i + 1)
    ELSE <<byteChars[hexValue(s[i + 2]) * 16 + hexValue(s[i + 3]) + 1]>>
         \o percentBytes(s, i + 3)

\* percentDecode
percentDecode(s) ==
    IF percentValid(s, 0) THEN [err |-> FALSE, s |-> percentBytes(s, 0)]
    ELSE [err |-> TRUE, s |-> <<>>]

\* the test parse makes of a variable name, from offset i on
RECURSIVE validVariableName(_, _)
validVariableName(name, i) ==
    IF i >= Len(name) THEN TRUE
    ELSE IF name[i + 1] = "_" \/ IsLetter(name[i + 1]) THEN validVariableName(name, i + 1)
    ELSE IF i > 0 /\ IsDigit(name[i + 1]) THEN validVariableName(name, i + 1)
    ELSE FALSE

\* parseSegment with the static segments of a host pattern decoded as well
parseSegmentDecodesHosts(sep, segment, more) ==
    IF segment = <<>>
    THEN IF sep = "." \/ more THEN [err |-> TRUE, prt |-> NIL]
         ELSE [err |-> FALSE, prt |-> [typ |-> staticPart, val |-> segment]]
    ELSE IF segment[1] = "{"
    THEN IF segment[Len(segment)] # "}" THEN [err |-> TRUE, prt |-> NIL]
         ELSE IF Slice(segment, 1, Len(segment) - 1) = <<>>
         THEN [err |-> TRUE, prt |-> NIL]
         ELSE IF Slice(segment, 1, Len(segment) - 1) = <<"*">>
         THEN IF more THEN [err |-> TRUE, prt |-> NIL]
              ELSE [err |-> FALSE, prt |-> [typ |-> wildcardPart, val |-> <<>>]]
         ELSE IF validVariableName(Slice(segment, 1, Len(segment) - 1), 0)
         THEN [err |-> FALSE,
               prt |-> [typ |-> variablePart,
                        val |-> Slice(segment, 1, Len(segment) - 1)]]
         ELSE [err |-> TRUE, prt |-> NIL]
    ELSE IF IndexByte(segment, "{") >= 0 \/ IndexByte(segment, "}") >= 0
    THEN [err |-> TRUE, prt |-> NIL]
    ELSE IF sep \in {"/", "."}
    THEN IF percentDecode(segment).err THEN [err |-> TRUE, prt |-> NIL]
         ELSE [err |-> FALSE,
               prt |-> [typ |-> staticPart, val |-> percentDecode(segment).s]]
    ELSE [err |-> FALSE, prt |-> [typ |-> staticPart, val |-> segment]]

\* the body of the loop of parse for one segment, index being past it: the
\* error or the part to append
parseSegment(sep, segment, more) ==
    IF segment = <<>>
    THEN IF sep = "." \/ more THEN [err |-> TRUE, prt |-> NIL]
         ELSE [err |-> FALSE, prt |-> [typ |-> staticPart, val |-> segment]]
    ELSE IF segment[1] = "{"
    THEN IF segment[Len(segment)] # "}" THEN [err |-> TRUE, prt |-> NIL]
         ELSE IF Slice(segment, 1, Len(segment) - 1) = <<>>
         THEN [err |-> TRUE, prt |-> NIL]
         ELSE IF Slice(segment, 1, Len(segment) - 1) = <<"*">>
         THEN IF more THEN [err |-> TRUE, prt |-> NIL]
              ELSE [err |-> FALSE, prt |-> [typ |-> wildcardPart, val |-> <<>>]]
         ELSE IF validVariableName(Slice(segment, 1, Len(segment) - 1), 0)
         THEN [err |-> FALSE,
               prt |-> [typ |-> variablePart,
                        val |-> Slice(segment, 1, Len(segment) - 1)]]
         ELSE [err |-> TRUE, prt |-> NIL]
    ELSE IF IndexByte(segment, "{") >= 0 \/ IndexByte(segment, "}") >= 0
    THEN [err |-> TRUE, prt |-> NIL]
    ELSE IF sep = "/"
    THEN IF percentDecode(segment).err THEN [err |-> TRUE, prt |-> NIL]
         ELSE [err |-> FALSE,
               prt |-> [typ |-> staticPart, val |-> percentDecode(segment).s]]
    ELSE [err |-> FALSE, prt |-> [typ |-> staticPart, val |-> segment]]

\* the length of the segment of pattern that starts at index
segmentLen(pattern, sep, index) ==
    IF IndexByte(From(pattern, index), sep) < 0 THEN Len(pattern) - index
    ELSE IndexByte(From(pattern, index), sep)

RECURSIVE parseLoop(_, _, _, _)

\* the loop of parse once the segment at index gave ps
parseLoopAt(pattern, sep, index, dst, ps) ==
    IF ps.err THEN [err |-> TRUE, dst |-> <<>>]
    ELSE parseLoop(pattern, sep, index, Append(dst, ps.prt))

\* the loop of parse over the segments from index on
parseLoop(pattern, sep, index, dst) ==
    IF index > Len(pattern) THEN [err |-> FALSE, dst |-> dst]
    ELSE parseLoopAt(pattern, sep, index + segmentLen(pattern, sep, index) + 1, dst,
                     parseSegment(sep,
                                  Slice(pattern, index,
                                        index + segmentLen(pattern, sep, index)),
                                  index + segmentLen(pattern, sep, index) + 1
                                     <= Len(pattern)))

\* parse(pattern, sep) of the second version: a path pattern must start with
\* the separator
parse_part000(pattern, sep) ==
    IF sep = "/" /\ (Len(pattern) = 0 \/ pattern[1] # "/")
    THEN [err |-> TRUE, dst |-> <<>>]
    ELSE parseLoop(pattern, sep, IF sep = "/" THEN 1 ELSE 0, <<>>)


\* ------------------------------------------------------------------------
\* src/matcher.go (first version): the scheme -> host -> path trie.
\*
\* A node is named by the steps that lead to it from the router's matcher:
\*   <<"S", key>>  the hostMatcher a schemeMatcher maps key to
\*   <<"H", key>>  an edge of a hostMatcher
\*   <<"L">>       the pathMatcher that is the leaf of a hostMatcher
\*   <<"P", key>>  an edge of a pathMatcher
\* `es` is the set of nodes that exist, `lf` maps a path node to its route.

variableKey == <<"{", "v", "}">>
wildcardKey == <<"(", "*", "}">>

\* the edge key newEdge derives from a part
partKey(v) ==
    IF v.typ = staticPart THEN v.val
    ELSE IF v.typ = variablePart THEN variableKey
    ELSE wildcardKey

\* the node reached from m along the parts p, on the given level ("H" or "P")
RECURSIVE edgeNode(_, _, _)
edgeNode(m, p, lvl) ==
    IF p = <<>> THEN m
    ELSE edgeNode(Append(m, <<lvl, partKey(Head(p))>>), Tail(p), lvl)

\* the nodes on the way from m along the parts p, m excluded
RECURSIVE edgeNodes(_, _, _)
edgeNodes(m, p, lvl) ==
    IF p = <<>> THEN {}
    ELSE LET e == Append(m, <<lvl, partKey(Head(p))>>) IN
         {e} \cup edgeNodes(e, Tail(p), lvl)

\* pathMatcher.newEdge / hostMatcher.newEdge: the edge for the parts p,
\* creating the nodes that are missing
newEdge(es, m, p, lvl) ==
    [edges |-> es \cup edgeNodes(m, p, lvl), node |-> edgeNode(m, p, lvl)]

\* pathMatcher.match: the node for the request path, static edge first, then
\* the variable edge, then the wildcard edge
RECURSIVE pathMatcher_match(_, _, _)
pathMatcher_match(es, m, path) ==
    LET idx == IndexByte(path, "/")
        seg == IF idx >= 0 THEN Slice(path, 0, idx) ELSE path
        nxt == IF idx >= 0 THEN From(path, idx + 1) ELSE <<>>
        st == Append(m, <<"P", seg>>)
        va == Append(m, <<"P", variableKey>>)
        wi == Append(m, <<"P", wildcardKey>>)
        r1 == IF st \in es
              THEN IF idx < 0 THEN st ELSE pathMatcher_match(es, st, nxt)
              ELSE NoNode
        r2 == IF va \in es
              THEN IF idx < 0 THEN va ELSE pathMatcher_match(es, va, nxt)
              ELSE NoNode
    IN
    IF r1 # NoNode THEN r1
    ELSE IF r2 # NoNode THEN r2
    ELSE IF wi \in es THEN wi
    ELSE NoNode

\* hostMatcher.match: one label of the host at a time, then the path
RECURSIVE hostMatcher_match(_, _, _, _)
hostMatcher_match(es, m, host, path) ==
    LET idx == IndexByte(host, ".")
        lab == IF idx >= 0 THEN Slice(host, 0, idx) ELSE host
        nxt == IF idx >= 0 THEN From(host, idx + 1) ELSE <<>>
        st == Append(m, <<"H", lab>>)
        va == Append(m, <<"H", variableKey>>)
        wi == Append(m, <<"H", wildcardKey>>)
        below(hm) ==
            IF idx < 0
            THEN IF Append(hm, <<"L">>) \in es
                 THEN pathMatcher_match(es, Append(hm, <<"L">>), path)
                 ELSE NoNode
            ELSE hostMatcher_match(es, hm, nxt, path)
        r1 == IF st \in es THEN below(st) ELSE NoNode
        r2 == IF va \in es THEN below(va) ELSE NoNode
    IN
    IF r1 # NoNode THEN r1
    ELSE IF r2 # NoNode THEN r2
    ELSE IF wi \in es /\ Append(wi, <<"L">>) \in es
    THEN pathMatcher_match(es, Append(wi, <<"L">>), path)
    ELSE NoNode

\* schemeMatcher.match: the literal scheme first, then the wildcard scheme
schemeMatcher_match(es, scheme, host, path) ==
    LET lit == << <<"S", scheme>> >>
        wi == << <<"S", wildcardKey>> >>
        r1 == IF lit \in es THEN hostMatcher_match(es, lit, host, path) ELSE NoNode
    IN
    IF r1 # NoNode THEN r1
    ELSE IF wi \in es THEN hostMatcher_match(es, wi, host, path)
    ELSE NoNode

\* matcher.match, dispatched on the dynamic type of the matcher
matcher_match(mt, es, scheme, host, path) ==
    IF mt = "scheme" THEN schemeMatcher_match(es, scheme, host, path)
    ELSE IF mt = "host" THEN hostMatcher_match(es, <<>>, host, path)
    ELSE pathMatcher_match(es, <<>>, path)


\* ------------------------------------------------------------------------
\* net/url.Parse as src/matcher.go:175 uses it: the scheme, host and path of
\* a pattern.  The patterns of the model hold no query, fragment, userinfo,
\* port or percent escape.

IsSchemeLetter(c) ==
    c \in {"a", "b", "c", "d", "e", "f", "g", "h", "i", "j", "k", "l", "m", "n", "o",
           "p", "q", "r", "s", "t", "u", "v", "w", "x", "y", "z", "V"}

\* url.getScheme: the scheme before the first ':' and what follows it
RECURSIVE getScheme(_, _)
getScheme(raw, i) ==
    IF i >= Len(raw) THEN [err |-> FALSE, scheme |-> <<>>, rest |-> raw]
    ELSE LET c == raw[i + 1] IN
         IF IsSchemeLetter(c) THEN getScheme(raw, i + 1)
         ELSE IF IsDigit(c) \/ c \in {"+", "-", "."}
         THEN IF i = 0 THEN [err |-> FALSE, scheme |-> <<>>, rest |-> raw]
              ELSE getScheme(raw, i + 1)
         ELSE IF c = ":"
         THEN IF i = 0 THEN [err |-> TRUE, scheme |-> <<>>, rest |-> raw]
              ELSE [err |-> FALSE, scheme |-> Slice(raw, 0, i), rest |-> From(raw, i + 1)]
         ELSE [err |-> FALSE, scheme |-> <<>>, rest |-> raw]

HasPrefix(s, pre) == Len(s) >= Len(pre) /\ SubSeq(s, 1, Len(pre)) = pre

\* url.Parse
url_Parse(raw) ==
    LET gs == getScheme(raw, 0)
        rest == gs.rest
    IN
    IF gs.err THEN [err |-> TRUE, Scheme |-> <<>>, Host |-> <<>>, Path |-> <<>>]
    ELSE IF ~HasPrefix(rest, <<"/">>) /\ gs.scheme # <<>>
    THEN \* an opaque URL: neither host nor path
         [err |-> FALSE, Scheme |-> gs.scheme, Host |-> <<>>, Path |-> <<>>]
    ELSE IF ~HasPrefix(rest, <<"/">>) /\ IndexByte(rest, ":") >= 0
            /\ (IndexByte(rest, "/") < 0 \/ IndexByte(rest, ":") < IndexByte(rest, "/"))
    THEN \* first path segment in URL cannot contain colon
         [err |-> TRUE, Scheme |-> <<>>, Host |-> <<>>, Path |-> <<>>]
    ELSE IF (gs.scheme # <<>> \/ ~HasPrefix(rest, <<"/", "/", "/">>))
            /\ HasPrefix(rest, <<"/", "/">>)
    THEN LET auth == From(rest, 2)
             i == IndexByte(auth, "/")
         IN
         [err |-> FALSE, Scheme |-> gs.scheme,
          Host |-> IF i < 0 THEN auth ELSE Slice(auth, 0, i),
          Path |-> IF i < 0 THEN <<>> ELSE From(auth, i)]
    ELSE [err |-> FALSE, Scheme |-> gs.scheme, Host |-> <<>>, Path |-> rest]

\* ------------------------------------------------------------------------
\* src/matcher.go (first version): registration

\* every node of es moved below the steps pre
Reparent(es, pre) == {pre \o n : n \in es}

\* a conversion that starts the converted matcher without the routes of the
\* old one
ReparentLeafDropping(lf, pre) ==
    IF pre = <<>> THEN lf ELSE << >>

\* every leaf of lf moved below the steps pre
ReparentLeaf(lf, pre) ==
    [n \in Reparent(DOMAIN lf, pre) |-> lf[SubSeq(n, Len(pre) + 1, Len(n))]]

\* the steps from a host-wrapped matcher to the path trie it wraps
hostWrap == << <<"H", wildcardKey>>, <<"L">> >>

\* the steps from a scheme-wrapped matcher to the host trie it wraps
schemeWrap == << <<"S", wildcardKey>> >>

\* pathMatcher.toHostMatcher
toHostMatcher(es) == {<<>>, << <<"H", wildcardKey>> >>} \cup Reparent(es, hostWrap)

\* hostMatcher.toSchemeMatcher
toSchemeMatcher(es) == {<<>>} \cup Reparent(es, schemeWrap)

\* matcherForPath: the path node of the pattern's path below pm
matcherForPath(es, pm, path) ==
    IF path = <<>>
    THEN LET ne == newEdge(es, pm, << [typ |-> wildcardPart, val |-> <<>>] >>, "P") IN
         [panic |-> FALSE, edges |-> ne.edges, pm |-> ne.node]
    ELSE LET pr == parse(path, "/") IN
         IF pr.err THEN [panic |-> TRUE, edges |-> es, pm |-> NoNode]
         ELSE LET ne == newEdge(es, pm, pr.dst, "P") IN
              [panic |-> FALSE, edges |-> ne.edges, pm |-> ne.node]

\* matcherForHost: the host node of the pattern's host below hm, its path
\* trie created if missing, then the path node
matcherForHost(es, hm, host, path) ==
    LET pr == IF host = <<>>
              THEN [err |-> FALSE, dst |-> << [typ |-> wildcardPart, val |-> <<>>] >>]
              ELSE parse(host, ".")
    IN
    IF pr.err THEN [panic |-> TRUE, edges |-> es, pm |-> NoNode]
    ELSE LET ne == newEdge(es, hm, pr.dst, "H")
             lf == Append(ne.node, <<"L">>)
         IN matcherForPath(ne.edges \cup {lf}, lf, path)

\* matcherForScheme: the host trie of the pattern's scheme, created if
\* missing, then the host and path nodes
matcherForScheme(es, scheme, host, path) ==
    LET key == IF scheme = <<>> THEN wildcardKey ELSE scheme
        hm == << <<"S", key>> >>
    IN matcherForHost(es \cup {hm}, hm, host, path)

\* the dynamic type of the matcher once newPattern has converted it for a
\* pattern with the parsed URL u
convertedType(mt, u) ==
    IF mt = "host" /\ u.Scheme # <<>> THEN "scheme"
    ELSE IF mt = "path" /\ u.Scheme # <<>> THEN "scheme"
    ELSE IF mt = "path" /\ u.Host # <<>> THEN "host"
    ELSE mt

\* the steps the old nodes moved below in the conversion from mt to mt2
convertedBelow(mt, mt2) ==
    IF mt = "host" /\ mt2 = "scheme" THEN schemeWrap
    ELSE IF mt = "path" /\ mt2 = "scheme" THEN schemeWrap \o hostWrap
    ELSE IF mt = "path" /\ mt2 = "host" THEN hostWrap
    ELSE <<>>

\* the nodes after the conversion from mt to mt2
convertedEdges(mt, mt2, es) ==
    IF mt = "host" /\ mt2 = "scheme" THEN toSchemeMatcher(es)
    ELSE IF mt = "path" /\ mt2 = "scheme" THEN toSchemeMatcher(toHostMatcher(es))
    ELSE IF mt = "path" /\ mt2 = "host" THEN toHostMatcher(es)
    ELSE es

\* the switch of newPattern that adds the pattern to the converted matcher
matcherFor(mt2, es2, u) ==
    IF mt2 = "scheme" THEN matcherForScheme(es2, u.Scheme, u.Host, u.Path)
    ELSE IF mt2 = "host" THEN matcherForHost(es2, <<>>, u.Host, u.Path)
    ELSE matcherForPath(es2, <<>>, u.Path)

\* what newPattern returns, given the converted type and the result r of
\* the switch
newPatternResult(mt, mt2, es, u, r) ==
    IF u.err THEN [panic |-> TRUE, mtype |-> mt, edges |-> es, pre |-> <<>>, pm |-> NoNode]
    ELSE [panic |-> r.panic, mtype |-> mt2, edges |-> r.edges,
          pre |-> convertedBelow(mt, mt2), pm |-> r.pm]

\* newPattern after url.Parse gave u
newPatternParsed(mt, mt2, es, u) ==
    newPatternResult(mt, mt2, es, u, matcherFor(mt2, convertedEdges(mt, mt2, es), u))

\* newPattern: the matcher after the pattern was added (wrapped in a host or
\* scheme level when the pattern needs it) and the path node of the pattern.
\* `pre` names the steps the old nodes moved below.
newPatternURL(mt, es, u) == newPatternParsed(mt, convertedType(mt, u), es, u)

newPattern(mt, es, pattern) == newPatternURL(mt, es, url_Parse(pattern))


\* ------------------------------------------------------------------------
\* src/unnamed/part_008 (second version): the Router over the trie

VARIABLES
    mtype,    \* Router.matcher: its dynamic type, "path", "host" or "scheme"
    edges,    \* Router.matcher: the nodes of the trie
    leaf,     \* pathMatcher.leaf of every path node that has one
    routes,   \* the Route objects, by identity
    ret       \* what the last call returned

muxyVars == <<mtype, edges, leaf, routes, ret>>

\* patterns and request paths of the model
pat_a_b == <<"/", "a", "/", "b">>
pat_a_x == <<"/", "a", "/", "{", "x", "}">>
pat_a_y == <<"/", "a", "/", "{", "y", "}">>
pat_a_w == <<"/", "a", "/", "{", "*", "}">>
pat_a_x_c == <<"/", "a", "/", "{", "x", "}", "/", "c">>
pat_a_b_d == <<"/", "a", "/", "b", "/", "d">>
pat_a_b_c == <<"/", "a", "/", "b", "/", "c">>
pat_bad == <<"/", "a", "/", "{", "x">>
req_a_b == <<"/", "a", "/", "b">>
req_a_c == <<"/", "a", "/", "c">>
req_a_c_d == <<"/", "a", "/", "c", "/", "d">>
req_a_b_d == <<"/", "a", "/", "b", "/", "d">>
req_a_z_c == <<"/", "a", "/", "z", "/", "c">>
req_a_b_c == <<"/", "a", "/", "b", "/", "c">>

MuxyPatterns ==
    {pat_a_b, pat_a_x, pat_a_y, pat_a_w, pat_a_x_c, pat_a_b_d, pat_a_b_c, pat_bad}

MuxyPaths == {req_a_b, req_a_c, req_a_c_d, req_a_b_d, req_a_z_c, req_a_b_c}

\* newRoute
newRoute(pattern) ==
    [Pattern |-> pattern, NamePrefix |-> <<>>, Middleware |-> <<>>, Handlers |-> << >>]

\* the nodes of es that lie below the steps pre, named from there
Below(es, pre) ==
    {SubSeq(n, Len(pre) + 1, Len(n)) : n \in {x \in es : HasPrefix(x, pre)}}

\* what the last call returned: its route, whether it panicked, whether the
\* panic was newPattern's (the pattern did not parse) and the pattern the
\* panic of Router.route prints as the registered equivalent
NoReturn ==
    [op |-> "none", pattern |-> <<>>, scheme |-> <<>>, host |-> <<>>, path |-> <<>>,
     route |-> NIL, panic |-> FALSE, parseErr |-> FALSE, reported |-> <<>>]

\* Router.route after newPattern returned np
Router_routeAt(router, pattern, np) ==
    LET lf0 == ReparentLeaf(router.leaf, np.pre)
        fresh == np.pm \notin DOMAIN lf0
        lf1 == IF fresh THEN [n \in DOMAIN lf0 \cup {np.pm} |->
                                 IF n = np.pm THEN pattern ELSE lf0[n]]
               ELSE lf0
        rs1 == IF fresh THEN [r \in DOMAIN router.routes \cup {pattern} |->
                                 IF r = pattern THEN newRoute(pattern) ELSE router.routes[r]]
               ELSE router.routes
    IN
    IF np.panic
    THEN [router EXCEPT !.edges = Below(np.edges, np.pre),
                        !.ret = [NoReturn EXCEPT !.op = "Route", !.pattern = pattern,
                                                 !.panic = TRUE, !.parseErr = TRUE]]
    ELSE [mtype |-> np.mtype, edges |-> np.edges, leaf |-> lf1, routes |-> rs1,
          ret |-> [NoReturn EXCEPT !.op = "Route", !.pattern = pattern,
                                   !.route = IF rs1[lf1[np.pm]].Pattern # pattern
                                             THEN NIL ELSE lf1[np.pm],
                                   !.panic = rs1[lf1[np.pm]].Pattern # pattern,
                                   !.reported =
                                      IF rs1[lf1[np.pm]].Pattern # pattern
                                      THEN rs1[lf1[np.pm]].Pattern ELSE <<>>]]

\* Router.route: the route bound at the pattern's path node, created if the
\* node has none; panics when the node's route was registered under another
\* pattern string.  The router is the record of the state variables.
Router_route(router, pattern) ==
    Router_routeAt(router, pattern, newPattern(router.mtype, router.edges, pattern))

\* Router.match: the route of the node the matcher finds, nil when it finds
\* none or the node has no route
Router_match(mt, es, lf, scheme, host, path) ==
    LET pm == matcher_match(mt, es, scheme, host, From(path, 1)) IN
    IF pm # NoNode /\ pm \in DOMAIN lf THEN lf[pm] ELSE NIL

MuxyInit ==
    /\ mtype = "path"
    /\ edges = {<<>>}
    /\ leaf = << >>
    /\ routes = << >>
    /\ ret = NoReturn

\* Router.Route(pattern) on the root router
RouterRoute(pattern) ==
    /\ \E r \in {Router_route([mtype |-> mtype, edges |-> edges, leaf |-> leaf,
                               routes |-> routes, ret |-> ret], pattern)} :
          /\ mtype' = r.mtype
          /\ edges' = r.edges
          /\ leaf' = r.leaf
          /\ routes' = r.routes
          /\ ret' = r.ret

\* Router.Route(pattern) while the router has fewer than MaxRoutes routes
MuxyRoute(pattern) ==
    /\ \/ pattern \in DOMAIN routes
       \/ Cardinality(DOMAIN routes) < MaxRoutes
    /\ RouterRoute(pattern)

\* Router.match(req) for the request URL u
RouterMatch(u) ==
    /\ ret' = [NoReturn EXCEPT !.op = "match", !.scheme = u.Scheme, !.host = u.Host,
                               !.path = u.Path,
                               !.route = Router_match(mtype, edges, leaf, u.Scheme,
                                                      u.Host, u.Path)]
    /\ UNCHANGED <<mtype, edges, leaf, routes>>

\* Router.match(req) for a request without scheme and host
MuxyMatch(path) == RouterMatch([Scheme |-> <<>>, Host |-> <<>>, Path |-> path])

MuxyNext ==
    \/ \E pattern \in MuxyPatterns : MuxyRoute(pattern)
    \/ \E path \in MuxyPaths : MuxyMatch(path)


\* ------------------------------------------------------------------------
\* src/matchers/mpath/mpath.go: the path-only matcher.  A pattern is a path
\* whose segments are static, ":name" (a variable) or "*" (the wildcard).

\* strings.Split(s, "/")
RECURSIVE Split(_)
Split(s) ==
    LET i == IndexByte(s, "/") IN
    IF i < 0 THEN <<s>> ELSE <<Slice(s, 0, i)>> \o Split(From(s, i + 1))

\* strings.Join(segs, "/")
RECURSIVE Join(_)
Join(segs) ==
    IF segs = <<>> THEN <<>>
    ELSE IF Len(segs) = 1 THEN segs[1]
    ELSE segs[1] \o <<"/">> \o Join(Tail(segs))

\* path.Clean on a rooted path: the elements that remain once empty and "."
\* elements are dropped and ".." has removed the element before it
RECURSIVE cleanElems(_, _)
cleanElems(elems, out) ==
    IF elems = <<>> THEN out
    ELSE LET e == Head(elems) IN
         IF e = <<>> \/ e = <<".">> THEN cleanElems(Tail(elems), out)
         ELSE IF e = <<".", ".">>
         THEN cleanElems(Tail(elems),
                         IF out = <<>> THEN out ELSE SubSeq(out, 1, Len(out) - 1))
         ELSE cleanElems(Tail(elems), Append(out, e))

\* cleanPath: the canonical path for p, a trailing slash kept
cleanPath(p) ==
    IF p = <<>> THEN <<"/">>
    ELSE LET p1 == IF p[1] # "/" THEN <<"/">> \o p ELSE p
             np == <<"/">> \o Join(cleanElems(Split(From(p1, 1)), <<>>))
         IN
         IF p1[Len(p1)] = "/" /\ np # <<"/">> THEN np \o <<"/">> ELSE np

\* the number of '/' in s
CountSlash(s) == Cardinality({i \in 1..Len(s) : s[i] = "/"})

\* the check parse makes of a variable name: an underscore or a letter, then
\* underscores, letters and digits
RECURSIVE validName(_, _)
validName(name, k) ==
    IF k > Len(name) THEN TRUE
    ELSE LET r == name[k] IN
         IF k = 1
         THEN IF r # "_" /\ ~IsLetter(r) THEN FALSE ELSE validName(name, k + 1)
         ELSE IF r # "_" /\ ~IsLetter(r) /\ ~IsDigit(r) THEN FALSE
              ELSE validName(name, k + 1)

\* the loop of mpath's parse: the segments of path, each one checked
RECURSIVE mpath_parseLoop(_, _)
mpath_parseLoop(path, segs) ==
    IF Len(path) = 0 THEN [err |-> FALSE, segs |-> segs]
    ELSE LET i == IndexByte(path, "/")
             prt == IF i < 0 THEN path ELSE Slice(path, 0, i)
             rest == IF i < 0 THEN <<>> ELSE From(path, i + 1)
         IN
         IF prt[1] = ":" /\ (Len(prt) = 1 \/ ~validName(From(prt, 1), 1))
         THEN [err |-> TRUE, segs |-> <<>>]
         ELSE IF prt[1] = "*" /\ (Len(prt) # 1 \/ Len(rest) # 0)
         THEN [err |-> TRUE, segs |-> <<>>]
         ELSE mpath_parseLoop(rest, Append(segs, prt))

\* the segments parse returns: one per '/' of the cleaned pattern, the slots
\* the loop did not fill left empty
mpath_parseFill(count, r) ==
    IF r.err THEN r
    ELSE [err |-> FALSE,
          segs |-> r.segs \o [k \in 1..(count - Len(r.segs)) |-> <<>>]]

\* parse on the cleaned pattern
mpath_parseClean(cp) ==
    mpath_parseFill(CountSlash(cp), mpath_parseLoop(From(cp, 1), <<>>))

\* mpath's parse: the segments of the cleaned pattern, or an error
mpath_parse(pattern) == mpath_parseClean(cleanPath(pattern))

\* A node of the mpath trie is named by the edges that lead to it from the
\* root: <<"s", segment>> of node.edges, <<"v">> node.vEdge, <<"w">> node.wEdge.

\* node.edge: the node for the segments, creating what is missing; a segment
\* that is empty panics (seg[0] of an empty string) with the nodes before it
\* created
RECURSIVE node_edge(_, _, _)
node_edge(ns, n, segs) ==
    IF segs = <<>> THEN [panic |-> FALSE, nodes |-> ns, node |-> n]
    ELSE LET seg == Head(segs) IN
         IF seg = <<>> THEN [panic |-> TRUE, nodes |-> ns, node |-> NoNode]
         ELSE IF seg[1] = ":"
         THEN node_edge(ns \cup {Append(n, <<"v">>)}, Append(n, <<"v">>), Tail(segs))
         ELSE IF seg[1] = "*"
         THEN [panic |-> FALSE, nodes |-> ns \cup {Append(n, <<"w">>)},
               node |-> Append(n, <<"w">>)]
         ELSE node_edge(ns \cup {Append(n, <<"s", seg>>)}, Append(n, <<"s", seg>>),
                        Tail(segs))

\* the loop of node.match: one segment at a time, the static edge, else the
\* variable edge, else the wildcard edge of the node where the walk stopped
RECURSIVE node_matchLoop(_, _, _)
node_matchLoop(ns, n, path) ==
    IF Len(path) = 0 THEN n
    ELSE LET i == IndexByte(path, "/")
             prt == IF i < 0 THEN path ELSE Slice(path, 0, i)
             rest == IF i < 0 THEN <<>> ELSE From(path, i + 1)
         IN
         IF Append(n, <<"s", prt>>) \in ns
         THEN node_matchLoop(ns, Append(n, <<"s", prt>>), rest)
         ELSE IF Append(n, <<"v">>) \in ns
         THEN node_matchLoop(ns, Append(n, <<"v">>), rest)
         ELSE IF Append(n, <<"w">>) \in ns THEN Append(n, <<"w">>)
         ELSE NoNode

\* node.match
node_match(ns, n, path) == node_matchLoop(ns, n, From(path, 1))

\* the loop of mpath's newPattern over the segments; b is the buffer
RECURSIVE newPatternLoop(_, _, _)
newPatternLoop(segs, b, p) ==
    IF segs = <<>>
    THEN IF Len(b) # 0 THEN [p EXCEPT !.parts = Append(@, b)] ELSE p
    ELSE LET s0 == Head(segs)
             s == IF s0[1] = ":" THEN From(s0, 1)
                  ELSE IF s0[1] = "*" THEN s0
                  ELSE <<>>
             b1 == IF s0[1] \notin {":", "*"} THEN b \o <<"/">> \o s0 ELSE b
         IN
         IF s # <<>>
         THEN newPatternLoop(Tail(segs), <<>>,
                             [parts |-> p.parts \o <<b1 \o <<"/">>, s>>,
                              keys |-> Append(p.keys, s)])
         ELSE newPatternLoop(Tail(segs), b1, p)

\* mpath's newPattern: the static stretches and the variable names of the
\* segments, in order
mpath_newPattern(segs) == newPatternLoop(segs, <<>>, [parts |-> <<>>, keys |-> <<>>])

\* setVarsLoop with the static part's leading slash counted as part of the
\* path left: skips one byte too many
RECURSIVE setVarsLoopSkipsSlash(_, _, _, _)
setVarsLoopSkipsSlash(parts, path, idx, vars) ==
    IF parts = <<>> THEN vars
    ELSE LET prt == Head(parts) IN
         IF prt[1] = "/"
         THEN setVarsLoopSkipsSlash(Tail(parts), From(path, Len(prt)), idx, vars)
         ELSE IF prt[1] = "*"
         THEN setVarsLoopSkipsSlash(Tail(parts), path, idx,
                                    [vars EXCEPT ![idx + 1] = path])
         ELSE LET i == IndexByte(path, "/") IN
              IF i < 0
              THEN setVarsLoopSkipsSlash(Tail(parts), path, idx,
                                         [vars EXCEPT ![idx + 1] = path])
              ELSE setVarsLoopSkipsSlash(Tail(parts), From(path, i + 1), idx + 1,
                                         [vars EXCEPT ![idx + 1] = Slice(path, 0, i)])

\* the loop of pattern.setVars over the parts
RECURSIVE setVarsLoop(_, _, _, _)
setVarsLoop(parts, path, idx, vars) ==
    IF parts = <<>> THEN vars
    ELSE LET prt == Head(parts) IN
         IF prt[1] = "/"
         THEN setVarsLoop(Tail(parts), From(path, Len(prt) - 1), idx, vars)
         ELSE IF prt[1] = "*"
         THEN setVarsLoop(Tail(parts), path, idx, [vars EXCEPT ![idx + 1] = path])
         ELSE LET i == IndexByte(path, "/") IN
              IF i < 0
              THEN setVarsLoop(Tail(parts), path, idx, [vars EXCEPT ![idx + 1] = path])
              ELSE setVarsLoop(Tail(parts), From(path, i + 1), idx + 1,
                               [vars EXCEPT ![idx + 1] = Slice(path, 0, i)])

\* pattern.setVars: the values of the pattern's keys in the request path
setVars(p, path) ==
    IF Len(p.keys) = 0 THEN <<>>
    ELSE setVarsLoop(p.parts, From(path, 1), 0, [k \in 1..Len(p.keys) |-> <<>>])

\* ------------------------------------------------------------------------
\* Method dispatch.  A handlers table is a function from method strings to
\* handlers; the key "" is the default key.  A handler is a record: one a
\* route was given (kind "bound"), one allowHandler made (kind "allow", with
\* its status code and the methods of its Allow header, in order), or none.

\* the request methods and handlers of the model
Methods == {"GET", "HEAD", "POST", "OPTIONS"}
HandlerNames == {"h1", "h2"}

boundHandler(h) == [kind |-> "bound", h |-> h, code |-> 0, allow |-> <<>>]
nilHandler == [kind |-> "nil", h |-> "", code |-> 0, allow |-> <<>>]
notFoundHandler == [kind |-> "notFound", h |-> "", code |-> 404, allow |-> <<>>]

\* the orders in which a range over a Go map may visit the keys in S
MapOrders(S) ==
    {o \in [1..Cardinality(S) -> S] : \A i, j \in 1..Cardinality(S) : o[i] = o[j] => i = j}

\* allowHandler (both versions): OPTIONS, then every key of the table but ""
\* and OPTIONS in the order the range over the map visits them; one handler
\* for each such order
allowHandler(handlers, code) ==
    {[kind |-> "allow", h |-> "", code |-> code, allow |-> <<"OPTIONS">> \o o] :
        o \in MapOrders(DOMAIN handlers \ {"", "OPTIONS"})}

\* Route.methodHandler with the default key tried before the method is
\* known to be OPTIONS
Route_methodHandlerDefaultFirst(handlers, method) ==
    IF method \in DOMAIN handlers THEN {boundHandler(handlers[method])}
    ELSE IF method = "HEAD" /\ "GET" \in DOMAIN handlers
    THEN {boundHandler(handlers["GET"])}
    ELSE IF "" \in DOMAIN handlers THEN {boundHandler(handlers[""])}
    ELSE IF method = "OPTIONS" THEN allowHandler(handlers, 200)
    ELSE allowHandler(handlers, 405)

\* Route.methodHandler of the Router over matcher.go: the handlers it may return
Route_methodHandler(handlers, method) ==
    IF method \in DOMAIN handlers THEN {boundHandler(handlers[method])}
    ELSE IF method = "OPTIONS" THEN allowHandler(handlers, 200)
    ELSE IF method = "HEAD" /\ "GET" \in DOMAIN handlers
    THEN {boundHandler(handlers["GET"])}
    ELSE IF "" \in DOMAIN handlers THEN {boundHandler(handlers[""])}
    ELSE allowHandler(handlers, 405)

\* mpath's methodHandler: the same, after the test that returns nil for a
\* table that is nil or empty
methodHandler(handlers, method) ==
    IF DOMAIN handlers = {} THEN {nilHandler}
    ELSE IF method \in DOMAIN handlers THEN {boundHandler(handlers[method])}
    ELSE IF method = "OPTIONS" THEN allowHandler(handlers, 200)
    ELSE IF method = "HEAD" /\ "GET" \in DOMAIN handlers
    THEN {boundHandler(handlers["GET"])}
    ELSE IF "" \in DOMAIN handlers THEN {boundHandler(handlers[""])}
    ELSE allowHandler(handlers, 405)

\* Route.Handle (both versions): h under each of the methods, under the
\* default key when no method is given.  A nil table and an empty one are the
\* same function with an empty domain.
Route_Handle(handlers, h, methods) ==
    IF methods = <<>>
    THEN [m \in DOMAIN handlers \cup {""} |-> IF m = "" THEN h ELSE handlers[m]]
    ELSE [m \in DOMAIN handlers \cup {methods[i] : i \in 1..Len(methods)} |->
            IF \E i \in 1..Len(methods) : methods[i] = m THEN h ELSE handlers[m]]

\* the text of the Allow header: strings.Join(allowed, ", ")
RECURSIVE JoinAllow(_)
JoinAllow(allowed) ==
    IF allowed = <<>> THEN <<>>
    ELSE IF Len(allowed) = 1 THEN <<allowed[1]>>
    ELSE <<allowed[1], ", ">> \o JoinAllow(Tail(allowed))

\* ------------------------------------------------------------------------
\* The Router of router.go over the mpath matcher.
\*   root      the nodes of the trie under matcher.root
\*   nleaf     node.leaf of the nodes that have one: node -> route
\*   patterns  matcher.patterns: route -> pattern
\*   Routes    Router.Routes: route -> pattern string
\*   heap      the Route objects: route -> [Pattern, Noun, Handlers]
\*   NamedRoutes  Router.NamedRoutes: name -> route
\*   mret      what the last call returned
\* A route is named by the pattern string that created it.  The router has
\* no middleware: New sets none and the model makes no call of Use.
VARIABLES
    root,
    nleaf,
    patterns,
    Routes,
    heap,
    NamedRoutes,
    mret

mpathVars == <<root, nleaf, patterns, Routes, heap, NamedRoutes, mret>>

mp_a_b == <<"/", "a", "/", "b">>
mp_a_x == <<"/", "a", "/", ":", "x">>
mp_a_w == <<"/", "a", "/", "*">>
mp_a_x_c == <<"/", "a", "/", ":", "x", "/", "c">>
mp_a_b_d == <<"/", "a", "/", "b", "/", "d">>
mp_foo ==
    <<"/", "f", "o", "o", "/", ":", "b", "a", "r", "/", "b", "a", "z", "/",
      ":", "q", "u", "x", "/", "*">>
mp_a_y == <<"/", "a", "/", ":", "y">>
mp_bad == <<"/", "a", "/", ":">>
req_foo ==
    <<"/", "f", "o", "o", "/", "V", "1", "/", "b", "a", "z", "/", "V", "2", "/",
      "x", "/", "y", "/", "z">>
req_a_c_slash == <<"/", "a", "/", "c", "/">>

\* the patterns registered and the request paths and methods matched
MpathPatterns ==
    {mp_a_b, mp_a_x, mp_a_y, mp_a_w, mp_a_x_c, mp_a_b_d, mp_foo, mp_bad}
MpathPaths ==
    {req_a_b, req_a_c, req_a_c_d, req_a_b_d, req_a_z_c, req_a_b_c, req_foo, req_a_c_slash}
MpathMethods == {"GET", "POST", "OPTIONS"}

\* the methods the routes of this router are given a handler for
HandleMethods == {<<"GET">>}

NoMpathReturn ==
    [op |-> "none", pattern |-> <<>>, path |-> <<>>, method |-> "", route |-> NIL,
     err |-> FALSE, panic |-> FALSE, handler |-> nilHandler, keys |-> <<>>,
     values |-> <<>>, reported |-> <<>>, name |-> <<>>, vars |-> <<>>, url |-> <<>>,
     mounted |-> NIL, after |-> <<>>, again |-> FALSE]

\* matcher.Route without the test of e.leaf: the node's route is replaced
matcher_RouteRebinds(m, pattern, pr, e) ==
    IF e.panic
    THEN [err |-> FALSE, panic |-> TRUE, m |-> [m EXCEPT !.root = e.nodes],
          route |-> NIL, existing |-> NIL]
    ELSE [err |-> FALSE, panic |-> FALSE,
          m |-> [root |-> e.nodes,
                 nleaf |-> [n \in DOMAIN m.nleaf \cup {e.node} |->
                              IF n = e.node THEN pattern ELSE m.nleaf[n]],
                 patterns |-> [r \in DOMAIN m.patterns \cup {pattern} |->
                                 IF r = pattern THEN mpath_newPattern(pr.segs)
                                 ELSE m.patterns[r]]],
          route |-> pattern, existing |-> NIL]

\* matcher.Route once the pattern parsed to pr.segs and node.edge gave e;
\* existing is the route r whose r.Pattern the duplicate error prints
matcher_RouteAt(m, pattern, pr, e) ==
    IF e.panic
    THEN [err |-> FALSE, panic |-> TRUE, m |-> [m EXCEPT !.root = e.nodes],
          route |-> NIL, existing |-> NIL]
    ELSE IF e.node \in DOMAIN m.nleaf
    THEN [err |-> TRUE, panic |-> FALSE, m |-> [m EXCEPT !.root = e.nodes],
          route |-> NIL, existing |-> m.nleaf[e.node]]
    ELSE [err |-> FALSE, panic |-> FALSE,
          m |-> [root |-> e.nodes,
                 nleaf |-> [n \in DOMAIN m.nleaf \cup {e.node} |->
                              IF n = e.node THEN pattern ELSE m.nleaf[n]],
                 patterns |-> [r \in DOMAIN m.patterns \cup {pattern} |->
                                 IF r = pattern THEN mpath_newPattern(pr.segs)
                                 ELSE m.patterns[r]]],
          route |-> pattern, existing |-> NIL]

\* matcher.Route after parse returned pr
matcher_RouteParsed(m, pattern, pr) ==
    IF pr.err
    THEN [err |-> TRUE, panic |-> FALSE, m |-> m, route |-> NIL, existing |-> NIL]
    ELSE matcher_RouteAt(m, pattern, pr, node_edge(m.root, <<>>, pr.segs))

\* matcher.Route: the new route of the pattern's node, an error when the
\* pattern does not parse or the node has a route already
matcher_Route(m, pattern) == matcher_RouteParsed(m, pattern, mpath_parse(pattern))

\* Router.Route without the entry in the route table
Router_RouteAtUntabled(rt, pattern, r) ==
    IF r.err \/ r.panic
    THEN [rt EXCEPT !.root = r.m.root,
                    !.mret = [NoMpathReturn EXCEPT !.op = "Route", !.pattern = pattern,
                                                   !.err = r.err, !.panic = TRUE,
                                                   !.reported =
                                                      IF r.existing = NIL THEN <<>>
                                                      ELSE rt.heap[r.existing].Pattern]]
    ELSE [root |-> r.m.root, nleaf |-> r.m.nleaf, patterns |-> r.m.patterns,
          Routes |-> rt.Routes,
          heap |-> [x \in DOMAIN rt.heap \cup {r.route} |->
                      IF x = r.route
                      THEN [Pattern |-> pattern, Noun |-> <<>>, Handlers |-> << >>]
                      ELSE rt.heap[x]],
          mret |-> [NoMpathReturn EXCEPT !.op = "Route", !.pattern = pattern,
                                         !.route = r.route]]

\* Router.Route after matcher.Route returned r
Router_RouteAt(rt, pattern, r) ==
    IF r.err \/ r.panic
    THEN [rt EXCEPT !.root = r.m.root,
                    !.mret = [NoMpathReturn EXCEPT !.op = "Route", !.pattern = pattern,
                                                   !.err = r.err, !.panic = TRUE,
                                                   !.reported =
                                                      IF r.existing = NIL THEN <<>>
                                                      ELSE rt.heap[r.existing].Pattern]]
    ELSE [root |-> r.m.root, nleaf |-> r.m.nleaf, patterns |-> r.m.patterns,
          Routes |-> [x \in DOMAIN rt.Routes \cup {r.route} |->
                        IF x = r.route THEN pattern ELSE rt.Routes[x]],
          heap |-> [x \in DOMAIN rt.heap \cup {r.route} |->
                      IF x = r.route
                      THEN [Pattern |-> pattern, Noun |-> <<>>, Handlers |-> << >>]
                      ELSE rt.heap[x]],
          mret |-> [NoMpathReturn EXCEPT !.op = "Route", !.pattern = pattern,
                                         !.route = r.route]]

\* Router.Route on the main router (Pattern and Noun empty): panics on the
\* matcher's error, else fills the route in and enters it in Routes
Router_Route(rt, pattern) ==
    Router_RouteAt(rt, pattern,
                   matcher_Route([root |-> rt.root, nleaf |-> rt.nleaf,
                                  patterns |-> rt.patterns], pattern))

\* matcher.Match once the walk of the cleaned path cp ended at the node e
matcher_MatchAt(m, hp, cp, method, e) ==
    LET found == e # NoNode /\ e \in DOMAIN m.nleaf IN
    {IF h = nilHandler
     THEN [route |-> IF found THEN m.nleaf[e] ELSE NIL, handler |-> notFoundHandler,
           keys |-> <<>>, values |-> <<>>]
     ELSE [route |-> m.nleaf[e], handler |-> h,
           keys |-> m.patterns[m.nleaf[e]].keys,
           values |-> setVars(m.patterns[m.nleaf[e]], cp)] :
        h \in IF found THEN methodHandler(hp[m.nleaf[e]].Handlers, method)
              ELSE {nilHandler}}

\* matcher.Match on the cleaned path
matcher_MatchClean(m, hp, cp, method) ==
    matcher_MatchAt(m, hp, cp, method, node_match(m.root, <<>>, cp))

\* matcher.Match: the results it may give for the path and the method
matcher_Match(m, hp, path, method) ==
    matcher_MatchClean(m, hp, cleanPath(path), method)

MpathInit ==
    /\ root = {<<>>}
    /\ nleaf = << >>
    /\ patterns = << >>
    /\ Routes = << >>
    /\ heap = << >>
    /\ NamedRoutes = << >>
    /\ mret = NoMpathReturn

\* Router.Route(pattern)
MpathRoute(pattern) ==
    /\ \/ pattern \in DOMAIN heap
       \/ Cardinality(DOMAIN heap) < MaxRoutes
    /\ \E r \in {Router_Route([root |-> root, nleaf |-> nleaf, patterns |-> patterns,
                               Routes |-> Routes, heap |-> heap, mret |-> mret], pattern)} :
          /\ root' = r.root
          /\ nleaf' = r.nleaf
          /\ patterns' = r.patterns
          /\ Routes' = r.Routes
          /\ heap' = r.heap
          /\ mret' = r.mret
    /\ UNCHANGED NamedRoutes

\* Route.Handle(h, methods...) on a registered route
MpathHandle(route, h, methods) ==
    /\ route \in DOMAIN heap
    /\ heap' = [heap EXCEPT ![route].Handlers = Route_Handle(@, h, methods)]
    /\ mret' = [NoMpathReturn EXCEPT !.op = "Handle", !.pattern = route, !.route = route]
    /\ UNCHANGED <<root, nleaf, patterns, Routes, NamedRoutes>>

\* matcher.Match for a request with the path and the method
MpathMatch(path, method) ==
    /\ \E r \in matcher_Match([root |-> root, nleaf |-> nleaf, patterns |-> patterns],
                              heap, path, method) :
          mret' = [NoMpathReturn EXCEPT !.op = "Match", !.path = path,
                                        !.method = method, !.route = r.route,
                                        !.handler = r.handler, !.keys = r.keys,
                                        !.values = r.values]
    /\ UNCHANGED <<root, nleaf, patterns, Routes, heap, NamedRoutes>>

\* Route.Name(name) on the route r of the heap hp, nr being NamedRoutes: the
\* name is appended to the route's Noun, then looked up, then indexed
Route_Name(hp, nr, r, name) ==
    LET noun == hp[r].Noun \o name IN
    [heap |-> [hp EXCEPT ![r].Noun = noun],
     NamedRoutes |-> IF noun \in DOMAIN nr THEN nr
                     ELSE [n \in DOMAIN nr \cup {noun} |->
                             IF n = noun THEN r ELSE nr[n]],
     panic |-> noun \in DOMAIN nr]

\* the names given to routes
RouteNames == {<<"n">>, <<"m">>}

\* Route.Name(name) on a registered route
MpathName(route, name) ==
    /\ route \in DOMAIN heap
    /\ Len(heap[route].Noun) + Len(name) <= MaxNoun
    /\ \E r \in {Route_Name(heap, NamedRoutes, route, name)} :
          /\ heap' = r.heap
          /\ NamedRoutes' = r.NamedRoutes
          /\ mret' = [NoMpathReturn EXCEPT !.op = "Name", !.route = route,
                                           !.name = name, !.panic = r.panic]
    /\ UNCHANGED <<root, nleaf, patterns, Routes>>

MpathNext ==
    \/ \E pattern \in MpathPatterns : MpathRoute(pattern)
    \/ \E route \in MpathPatterns, methods \in HandleMethods :
          MpathHandle(route, "h1", methods)
    \/ \E path \in MpathPaths, method \in MpathMethods : MpathMatch(path, method)

\* the first even offset i at or after k with vars[i] = part, -1 if none
RECURSIVE buildFind(_, _, _)
buildFind(vars, part, k) ==
    IF k >= Len(vars) THEN -1
    ELSE IF vars[k + 1] = part THEN k
    ELSE buildFind(vars, part, k + 2)

\* the loop of pattern.build over the parts; b is the buffer.  A binding that
\* was written has its name set to "" in vars.
RECURSIVE buildLoop(_, _, _)
buildLoop(parts, vars, b) ==
    IF parts = <<>> THEN [err |-> FALSE, url |-> b, vars |-> vars]
    ELSE IF Head(parts)[1] = "/" THEN buildLoop(Tail(parts), vars, b \o Head(parts))
    ELSE IF buildFind(vars, Head(parts), 0) < 0
    THEN [err |-> TRUE, url |-> <<>>, vars |-> vars]
    ELSE buildLoop(Tail(parts),
                   [vars EXCEPT ![buildFind(vars, Head(parts), 0) + 1] = <<>>],
                   b \o vars[buildFind(vars, Head(parts), 0) + 2])

\* pattern.build without the test of the number of arguments
pattern_buildUncounted(p, vars) == buildLoop(p.parts, vars, <<>>)

\* pattern.build: the URL of the pattern with the variables vars, which are
\* name, value, name, value, ...
pattern_build(p, vars) ==
    IF Len(p.keys) * 2 # Len(vars) THEN [err |-> TRUE, url |-> <<>>, vars |-> vars]
    ELSE buildLoop(p.parts, vars, <<>>)

\* matcher.Build
matcher_Build(m, r, vars) ==
    IF r \in DOMAIN m.patterns THEN pattern_build(m.patterns[r], vars)
    ELSE [err |-> TRUE, url |-> <<>>, vars |-> vars]

\* matcher.Build(route, vars...)
MpathBuild(route, vars) ==
    /\ \E r \in {matcher_Build([root |-> root, nleaf |-> nleaf, patterns |-> patterns],
                                route, vars)} :
          mret' = [NoMpathReturn EXCEPT !.op = "Build", !.route = route, !.vars = vars,
                                        !.err = r.err, !.url = r.url,
                                        !.after = r.vars]
    /\ UNCHANGED <<root, nleaf, patterns, Routes, heap, NamedRoutes>>

\* matcher.Build(route, vars...) once more, with the slice the caller passed
\* in the call before: vars... hands the callee the caller's slice, which
\* now holds what that call left in it
MpathBuildAgain ==
    /\ mret.op = "Build"
    /\ \E r \in {matcher_Build([root |-> root, nleaf |-> nleaf, patterns |-> patterns],
                                mret.route, mret.after)} :
          mret' = [NoMpathReturn EXCEPT !.op = "Build", !.route = mret.route,
                                        !.vars = mret.after, !.err = r.err,
                                        !.url = r.url, !.after = r.vars,
                                        !.again = TRUE]
    /\ UNCHANGED <<root, nleaf, patterns, Routes, heap, NamedRoutes>>

mp_root == <<"/">>
mp_a_slash == <<"/", "a", "/">>
mp_x_x == <<"/", ":", "x", "/", ":", "x">>
mp_x_w == <<"/", ":", "x", "/", "*">>

\* the patterns of the routes that URLs are built for
BuildPatterns == {mp_a_b, mp_root, mp_a_slash, mp_a_x, mp_x_x, mp_x_w}

\* the variables URLs are built with
BuildVars ==
    {<<>>,
     <<<<"x">>>>,
     <<<<"x">>, <<"V", "1">>>>,
     <<<<"y">>, <<"V", "1">>>>,
     <<<<"x">>, <<"V", "1">>, <<"x">>, <<"V", "2">>>>,
     <<<<"x">>, <<"V", "1">>, <<"y">>, <<"V", "2">>>>,
     <<<<"*">>, <<"c", "/", "d">>, <<"x">>, <<"V", "1">>>>,
     <<<<"x">>, <<"V", "1">>, <<>>, <<"V", "2">>>>}

\* a router whose routes URLs are built for
BuildNext ==
    \/ \E pattern \in BuildPatterns : MpathRoute(pattern)
    \/ \E route \in BuildPatterns, vars \in BuildVars : MpathBuild(route, vars)
    \/ MpathBuildAgain

\* muxy.New: a router without routes
NewRouter ==
    [root |-> {<<>>}, nleaf |-> << >>, patterns |-> << >>, Routes |-> << >>,
     heap |-> << >>, NamedRoutes |-> << >>, mret |-> NoMpathReturn, panic |-> FALSE]

\* the loop of Mount over k.Handlers: route.Handle(handler, method) for each
\* method of the sequence ms
RECURSIVE mountHandlers(_, _, _)
mountHandlers(handlers, from, ms) ==
    IF ms = <<>> THEN handlers
    ELSE mountHandlers(Route_Handle(handlers, from[Head(ms)], <<Head(ms)>>), from,
                       Tail(ms))

\* Mount for the route k of the source once Route(k.Pattern), which gave the
\* router r, and Name(k.Noun), which gave nm, have been called
mountNamed(dst, r, nm, route, k, ms) ==
    IF nm.panic
    THEN [root |-> r.root, nleaf |-> r.nleaf, patterns |-> r.patterns,
          Routes |-> r.Routes, heap |-> nm.heap, NamedRoutes |-> dst.NamedRoutes,
          mret |-> NoMpathReturn, panic |-> TRUE]
    ELSE [root |-> r.root, nleaf |-> r.nleaf, patterns |-> r.patterns,
          Routes |-> r.Routes,
          heap |-> [nm.heap EXCEPT ![route].Handlers =
                                      mountHandlers(@, k.Handlers, ms)],
          NamedRoutes |-> nm.NamedRoutes, mret |-> NoMpathReturn, panic |-> FALSE]

\* Mount for the route k of the source once Route(k.Pattern) gave the router
\* r; the new route has the name prefix of the group before it is named
mountRouted(dst, noun, r, route, k, ms) ==
    IF r.mret.panic
    THEN [dst EXCEPT !.root = r.root, !.panic = TRUE]
    ELSE mountNamed(dst, r,
                    Route_Name([r.heap EXCEPT ![route].Noun = noun], dst.NamedRoutes,
                               route, k.Noun),
                    route, k, ms)

\* the loop of Mount over the routes of the source in the order given; a
\* panic ends it
RECURSIVE mountLoop(_, _, _, _, _)
mountLoop(dst, pattern, noun, src, order) ==
    IF order = <<>> \/ dst.panic THEN dst
    ELSE \* the handlers are set under distinct keys: their order is immaterial
         mountLoop(mountRouted(dst, noun,
                               Router_Route([root |-> dst.root, nleaf |-> dst.nleaf,
                                             patterns |-> dst.patterns,
                                             Routes |-> dst.Routes, heap |-> dst.heap,
                                             mret |-> dst.mret],
                                            pattern \o src[Head(order)].Pattern),
                               pattern \o src[Head(order)].Pattern,
                               src[Head(order)],
                               CHOOSE ms \in MapOrders(DOMAIN src[Head(order)].Handlers) :
                                  TRUE),
                  pattern, noun, src, Tail(order))

\* the pattern and name prefixes of the groups routers are mounted on
MountGroups ==
    {[Pattern |-> <<>>, Noun |-> <<>>],
     [Pattern |-> <<"/", "p">>, Noun |-> <<"g">>]}

\* New().Group(pattern).Name(noun).Mount(src), src being the router of the
\* state: the range over src.Routes visits the routes in any order
MpathMount(group) ==
    /\ \E order \in MapOrders(DOMAIN heap) :
          \E dst \in {mountLoop(NewRouter, group.Pattern, group.Noun, heap, order)} :
             mret' = [NoMpathReturn EXCEPT
                         !.op = "Mount", !.pattern = group.Pattern,
                         !.name = group.Noun, !.mounted = dst, !.panic = dst.panic]
    /\ UNCHANGED <<root, nleaf, patterns, Routes, heap, NamedRoutes>>

\* the patterns of the routes that are given names
NamePatterns == {mp_a_b, mp_a_x}

\* the methods these routes are given a handler for, none for the default key
NameHandleMethods == {<<>>, <<"GET">>}

\* a router whose routes are named
NamesNext ==
    \/ \E pattern \in NamePatterns : MpathRoute(pattern)
    \/ \E route \in NamePatterns, name \in RouteNames : MpathName(route, name)
    \/ \E route \in NamePatterns, methods \in NameHandleMethods :
          MpathHandle(route, "h1", methods)
    \/ \E group \in MountGroups : MpathMount(group)

\* ------------------------------------------------------------------------
\* Method lookup on one route, as TestMethodLookup drives it.
\*   Handlers  the route's table
\*   looked    the method of the last lookup and what each methodHandler gave
VARIABLES
    Handlers,
    looked

dispatchVars == <<Handlers, looked>>

\* the methods a handler is bound to and the methods looked up
BindMethods == {<<>>, <<"GET">>, <<"HEAD">>, <<"POST">>, <<"OPTIONS">>}
LookupMethods == Methods \cup {"PUT"}

NoLookup == [method |-> "", route |-> nilHandler, mpath |-> nilHandler]

DispatchInit ==
    /\ Handlers = << >>
    /\ looked = NoLookup

\* Route.Handle(h, methods...)
DispatchHandle(h, methods) ==
    /\ Handlers' = Route_Handle(Handlers, h, methods)
    /\ looked' = NoLookup

\* Route.methodHandler(method) and mpath's methodHandler(Handlers, method)
DispatchLookup(method) ==
    /\ \E a \in Route_methodHandler(Handlers, method),
          b \in methodHandler(Handlers, method) :
          looked' = [method |-> method, route |-> a, mpath |-> b]
    /\ UNCHANGED Handlers

DispatchNext ==
    \/ \E h \in HandlerNames, methods \in BindMethods : DispatchHandle(h, methods)
    \/ \E method \in LookupMethods : DispatchLookup(method)

\* ------------------------------------------------------------------------
\* The specifications: the three routers start together and each
\* specification runs one of them.
\* ------------------------------------------------------------------------
\* TestMatch of src/router_test.go: patterns with and without scheme and
\* host on one router, and the request URLs matched against them.

\* matchTests: each pattern with the URL of a request built for it
matchTests ==
  <<
    \* myscheme:  myscheme://www.anything.com/anything
     [pattern |->
        <<"m", "y", "s", "c", "h", "e", "m", "e", ":">>,
      url |->
        <<"m", "y", "s", "c", "h", "e", "m", "e", ":", "/", "/", "w", "w",
          "w", ".", "a", "n", "y", "t", "h", "i", "n", "g", ".", "c", "o",
          "m", "/", "a", "n", "y", "t", "h", "i", "n", "g">>],
    \* //mydomain.com  anything://mydomain.com/anything
     [pattern |->
        <<"/", "/", "m", "y", "d", "o", "m", "a", "i", "n", ".", "c", "o",
          "m">>,
      url |->
        <<"a", "n", "y", "t", "h", "i", "n", "g", ":", "/", "/", "m", "y",
          "d", "o", "m", "a", "i", "n", ".", "c", "o", "m", "/", "a", "n",
          "y", "t", "h", "i", "n", "g">>],
    \* /a/{b}/{*}  anything://www.anything.com/a/b/c
     [pattern |->
        <<"/", "a", "/", "{", "b", "}", "/", "{", "*", "}">>,
      url |->
        <<"a", "n", "y", "t", "h", "i", "n", "g", ":", "/", "/", "w", "w",
          "w", ".", "a", "n", "y", "t", "h", "i", "n", "g", ".", "c", "o",
          "m", "/", "a", "/", "b", "/", "c">>],
    \* /{*}  anything://www.anything.com/a
     [pattern |->
        <<"/", "{", "*", "}">>,
      url |->
        <<"a", "n", "y", "t", "h", "i", "n", "g", ":", "/", "/", "w", "w",
          "w", ".", "a", "n", "y", "t", "h", "i", "n", "g", ".", "c", "o",
          "m", "/", "a">>],
    \* //{sub}.domain.com/a/{b}/{*}  anything://my.domain.com/a/b/c
     [pattern |->
        <<"/", "/", "{", "s", "u", "b", "}", ".", "d", "o", "m", "a", "i",
          "n", ".", "c", "o", "m", "/", "a", "/", "{", "b", "}", "/", "{",
          "*", "}">>,
      url |->
        <<"a", "n", "y", "t", "h", "i", "n", "g", ":", "/", "/", "m", "y",
          ".", "d", "o", "m", "a", "i", "n", ".", "c", "o", "m", "/", "a",
          "/", "b", "/", "c">>],
    \* https:///a/{b}/{*}  https://www.anything.com/a/b/c
     [pattern |->
        <<"h", "t", "t", "p", "s", ":", "/", "/", "/", "a", "/", "{", "b",
          "}", "/", "{", "*", "}">>,
      url |->
        <<"h", "t", "t", "p", "s", ":", "/", "/", "w", "w", "w", ".", "a",
          "n", "y", "t", "h", "i", "n", "g", ".", "c", "o", "m", "/", "a",
          "/", "b", "/", "c">>],
    \* https://{sub}.domain.com/a/{b}/{*}  https://my.domain.com/a/b/c
     [pattern |->
        <<"h", "t", "t", "p", "s", ":", "/", "/", "{", "s", "u", "b", "}",
          ".", "d", "o", "m", "a", "i", "n", ".", "c", "o", "m", "/", "a",
          "/", "{", "b", "}", "/", "{", "*", "}">>,
      url |->
        <<"h", "t", "t", "p", "s", ":", "/", "/", "m", "y", ".", "d", "o",
          "m", "a", "i", "n", ".", "c", "o", "m", "/", "a", "/", "b", "/",
          "c">>]
  >>

\* patterns that do not parse
BadPatterns ==
    {\* https://my.domain.com/a/{b: scheme and host parse, the path does not
     <<"h", "t", "t", "p", "s", ":", "/", "/", "m", "y", ".", "d", "o", "m",
       "a", "i", "n", ".", "c", "o", "m", "/", "a", "/", "{", "b">>,
     \* //{sub.domain.com/a: the host does not parse
     <<"/", "/", "{", "s", "u", "b", ".", "d", "o", "m", "a", "i", "n", ".",
       "c", "o", "m", "/", "a">>,
     \* :a: url.Parse fails: missing protocol scheme
     <<":", "a">>}

\* further request URLs
MoreURLs ==
    {\* https://my.domain.com/a
     <<"h", "t", "t", "p", "s", ":", "/", "/", "m", "y", ".", "d", "o", "m",
       "a", "i", "n", ".", "c", "o", "m", "/", "a">>,
     \* anything://my.domain.com/a
     <<"a", "n", "y", "t", "h", "i", "n", "g", ":", "/", "/", "m", "y", ".",
       "d", "o", "m", "a", "i", "n", ".", "c", "o", "m", "/", "a">>,
     \* https://mydomain.com/x
     <<"h", "t", "t", "p", "s", ":", "/", "/", "m", "y", "d", "o", "m", "a",
       "i", "n", ".", "c", "o", "m", "/", "x">>,
     \* //www.anything.com/a/b/c
     <<"/", "/", "w", "w", "w", ".", "a", "n", "y", "t", "h", "i", "n", "g",
       ".", "c", "o", "m", "/", "a", "/", "b", "/", "c">>}

\* the steps of TestMatch, the registrations in any order and number
TestMatchNext ==
    \/ \E i \in 1..Len(matchTests) : RouterRoute(matchTests[i].pattern)
    \/ \E pattern \in BadPatterns : RouterRoute(pattern)
    \/ \E i \in 1..Len(matchTests) : RouterMatch(url_Parse(matchTests[i].url))
    \/ \E url \in MoreURLs : RouterMatch(url_Parse(url))

\* ------------------------------------------------------------------------
\* The serve phase of the mpath router: requests in flight at the same time,
\* each in its own goroutine, node.match advancing one segment per step.
\*   serving   whether the build phase has ended
\*   inflight  for each goroutine, where its call of matcher.Match stands:
\*             the request, the cleaned path, the node and the rest of the
\*             path of node.match, and what Match returned
VARIABLES
    serving,
    inflight

serveVars == <<serving, inflight>>

Goroutines == 1..MaxInFlight

\* the routes of the router that serves, and the requests it is sent
ServePatterns == {mp_a_b, mp_a_x, mp_a_w}
ServePaths == {req_a_b, req_a_c, req_a_c_d}
ServeMethods == {"GET", "POST"}

NoResult == [route |-> NIL, handler |-> nilHandler, keys |-> <<>>, values |-> <<>>]

\* a goroutine that serves no request
Idle ==
    [pc |-> "idle", path |-> <<>>, method |-> "", cp |-> <<>>, n |-> <<>>,
     rest |-> <<>>, result |-> NoResult]

ServeInit ==
    /\ serving = FALSE
    /\ inflight = [g \in Goroutines |-> Idle]

\* one turn of the loop of node.match with the variable edge tried before
\* the static one
node_matchStepVariableFirst(ns, n, path) ==
    LET i == IndexByte(path, "/")
        prt == IF i < 0 THEN path ELSE Slice(path, 0, i)
        rest == IF i < 0 THEN <<>> ELSE From(path, i + 1)
    IN
    IF Append(n, <<"v">>) \in ns
    THEN [n |-> Append(n, <<"v">>), rest |-> rest, returned |-> FALSE]
    ELSE IF Append(n, <<"s", prt>>) \in ns
    THEN [n |-> Append(n, <<"s", prt>>), rest |-> rest, returned |-> FALSE]
    ELSE [n |-> IF Append(n, <<"w">>) \in ns THEN Append(n, <<"w">>) ELSE NoNode,
          rest |-> rest, returned |-> TRUE]

\* one turn of the loop of node.match at the node n with the path left: the
\* next node and the path left after it, or the wildcard edge returned
node_matchStep(ns, n, path) ==
    LET i == IndexByte(path, "/")
        prt == IF i < 0 THEN path ELSE Slice(path, 0, i)
        rest == IF i < 0 THEN <<>> ELSE From(path, i + 1)
    IN
    IF Append(n, <<"s", prt>>) \in ns
    THEN [n |-> Append(n, <<"s", prt>>), rest |-> rest, returned |-> FALSE]
    ELSE IF Append(n, <<"v">>) \in ns
    THEN [n |-> Append(n, <<"v">>), rest |-> rest, returned |-> FALSE]
    ELSE [n |-> IF Append(n, <<"w">>) \in ns THEN Append(n, <<"w">>) ELSE NoNode,
          rest |-> rest, returned |-> TRUE]

\* the build phase: Router.Route and Route.Handle
ServeBuild ==
    /\ ~serving
    /\ \/ \E pattern \in ServePatterns : MpathRoute(pattern)
       \/ \E route \in ServePatterns : MpathHandle(route, "h1", <<"GET">>)
    /\ UNCHANGED serveVars

\* the build phase ends: http.ListenAndServe
ServeBegin ==
    /\ ~serving
    /\ serving' = TRUE
    /\ mret' = NoMpathReturn
    /\ UNCHANGED <<root, nleaf, patterns, Routes, heap, NamedRoutes, inflight>>

\* matcher.Match is called in the goroutine g: the path is cleaned and
\* node.match starts at the root
ServeStart(g, path, method) ==
    /\ serving
    /\ inflight[g].pc = "idle"
    /\ inflight' = [inflight EXCEPT ![g] =
                       [Idle EXCEPT !.pc = "walk", !.path = path, !.method = method,
                                    !.cp = cleanPath(path),
                                    !.rest = From(cleanPath(path), 1)]]
    /\ UNCHANGED <<serving, mpathVars>>

\* one turn of the loop of node.match in the goroutine g
ServeWalk(g) ==
    /\ inflight[g].pc = "walk"
    /\ IF Len(inflight[g].rest) = 0
       THEN inflight' = [inflight EXCEPT ![g].pc = "found"]
       ELSE \E s \in {node_matchStep(root, inflight[g].n, inflight[g].rest)} :
               inflight' = [inflight EXCEPT ![g].n = s.n, ![g].rest = s.rest,
                                            ![g].pc = IF s.returned THEN "found"
                                                      ELSE "walk"]
    /\ UNCHANGED <<serving, mpathVars>>

\* the rest of matcher.Match in the goroutine g: the handler for the method
\* and the variables of the route
ServeFinish(g) ==
    /\ inflight[g].pc = "found"
    /\ \E r \in matcher_MatchAt([root |-> root, nleaf |-> nleaf, patterns |-> patterns],
                                heap, inflight[g].cp, inflight[g].method,
                                inflight[g].n) :
          inflight' = [inflight EXCEPT ![g].pc = "done", ![g].result = r]
    /\ UNCHANGED <<serving, mpathVars>>

\* ServeHTTP returns in the goroutine g
ServeReturn(g) ==
    /\ inflight[g].pc = "done"
    /\ inflight' = [inflight EXCEPT ![g] = Idle]
    /\ UNCHANGED <<serving, mpathVars>>

ServeNext ==
    \/ ServeBuild
    \/ ServeBegin
    \/ \E g \in Goroutines, path \in ServePaths, method \in ServeMethods :
          ServeStart(g, path, method)
    \/ \E g \in Goroutines : ServeWalk(g)
    \/ \E g \in Goroutines : ServeFinish(g)
    \/ \E g \in Goroutines : ServeReturn(g)

\* ------------------------------------------------------------------------
\* Middleware: Router.Use, Router.Group (Router.Sub in src/unnamed/part_008),
\* Router.Route and Route.Handle, with the slices of Go as they are: a slice
\* is a window (array, len, cap) on an array that other slices may share.
\*   uver     the version that runs: "router.go" wraps the handler in
\*            Route.Handle, "part_008" keeps the router's slice in the route
\*            and wraps in Route.handler when a request is served
\*   routers  the routers: their Middleware slice, and the router Group was
\*            called on to create them (NIL for the main router)
\*   arrays   the arrays allocated for the slices
\*   mroutes  the route each router registered, if any
\*   uret     the last call
VARIABLES
    uver,
    routers,
    arrays,
    mroutes,
    uret

useVars == <<uver, routers, arrays, mroutes, uret>>

\* the nil slice
nilSlice == [arr |-> 0, len |-> 0, cap |-> 0]

\* the elements a slice shows
contents(arrs, s) == [i \in 1..s.len |-> arrs[s.arr][i]]

\* the capacity growslice of the gc runtime gives a slice of 8-byte elements
\* of capacity old that must hold needed elements: twice the old capacity
\* unless more is needed, rounded up to a size class of the allocator
growslice(old, needed) ==
    LET newcap == IF needed > 2 * old THEN needed ELSE 2 * old IN
    IF newcap <= 4 THEN newcap
    ELSE IF newcap % 2 = 0 THEN newcap ELSE newcap + 1

\* the first address no array of arrs is allocated at
newArray(arrs) == CHOOSE a \in 1..(Cardinality(DOMAIN arrs) + 1) : a \notin DOMAIN arrs

\* append(s, x): in place when the capacity allows, else in a new array
appendSlice(arrs, s, x) ==
    IF s.len + 1 <= s.cap
    THEN [arrays |-> [arrs EXCEPT ![s.arr][s.len + 1] = x],
          slice |-> [s EXCEPT !.len = s.len + 1]]
    ELSE [arrays |-> [a \in DOMAIN arrs \cup {newArray(arrs)} |->
                        IF a \in DOMAIN arrs THEN arrs[a]
                        ELSE [i \in 1..growslice(s.cap, s.len + 1) |->
                                IF i <= s.len THEN arrs[s.arr][i]
                                ELSE IF i = s.len + 1 THEN x ELSE "nil"]],
          slice |-> [arr |-> newArray(arrs), len |-> s.len + 1,
                     cap |-> growslice(s.cap, s.len + 1)]]

\* the garbage collector: the arrays that a slice of a router or of a route
\* refers to
collected(arrs, rs, rts) ==
    [a \in ({rs[x].Middleware.arr : x \in DOMAIN rs}
             \cup {rts[x].Middleware.arr : x \in DOMAIN rts}) \ {0} |-> arrs[a]]

\* the routers: the main one and the sub-routers in the order of creation
RouterIds == <<"r", "g1", "g2", "g3">>

\* the middleware each router is given by Use
middlewareOf == [r |-> "m1", g1 |-> "m2", g2 |-> "m3", g3 |-> "m4"]

NoUse == [op |-> "none", router |-> ""]

UseInit ==
    /\ uver = "router.go"
    /\ routers = [x \in {"r"} |-> [Middleware |-> nilSlice, from |-> ""]]
    /\ arrays = << >>
    /\ mroutes = << >>
    /\ uret = NoUse

\* Router.Use(middleware) on the router rt
RouterUse(rt) ==
    /\ rt \in DOMAIN routers
    /\ routers[rt].Middleware.len < MaxChain
    /\ \E a \in {appendSlice(arrays, routers[rt].Middleware, middlewareOf[rt])} :
          /\ routers' = [routers EXCEPT ![rt].Middleware = a.slice]
          /\ arrays' = collected(a.arrays, routers', mroutes)
    /\ uret' = [op |-> "Use", router |-> rt]
    /\ UNCHANGED <<uver, mroutes>>

\* Router.Group(pattern) (Router.Sub) on the router rt: the sub-router gets
\* the slice of rt
RouterGroup(rt) ==
    /\ rt \in DOMAIN routers
    /\ Cardinality(DOMAIN routers) <= MaxGroups
    /\ routers' = [x \in DOMAIN routers \cup {RouterIds[Cardinality(DOMAIN routers) + 1]} |->
                     IF x \in DOMAIN routers THEN routers[x]
                     ELSE [Middleware |-> routers[rt].Middleware, from |-> rt]]
    /\ uret' = [op |-> "Group", router |-> rt]
    /\ UNCHANGED <<uver, arrays, mroutes>>

\* Router.Route(pattern) on the router rt, for a pattern that is new: in
\* src/unnamed/part_008 the route is given the router's slice
UseRoute(rt) ==
    /\ rt \in DOMAIN routers
    /\ rt \notin DOMAIN mroutes
    /\ Cardinality(DOMAIN mroutes) < MaxWrapped
    /\ mroutes' = [x \in DOMAIN mroutes \cup {rt} |->
                     IF x # rt THEN mroutes[x]
                     ELSE [Router |-> rt,
                           Middleware |-> IF uver = "part_008"
                                          THEN routers[rt].Middleware ELSE nilSlice,
                           Handlers |-> << >>]]
    /\ uret' = [op |-> "Route", router |-> rt]
    /\ UNCHANGED <<uver, routers, arrays>>

\* the handler Route.Handle stores for h: in router.go h wrapped by the
\* middleware of the route's router, the first of them outermost
wrapped(ver, rs, arrs, route, h) ==
    IF ver = "router.go" THEN contents(arrs, rs[route.Router].Middleware) \o <<h>>
    ELSE <<h>>

\* Route.Handle(h) on the route the router rt registered
UseHandle(rt) ==
    /\ rt \in DOMAIN mroutes
    /\ mroutes' = [mroutes EXCEPT ![rt].Handlers =
                      ("" :> wrapped(uver, routers, arrays, mroutes[rt], "h1"))]
    /\ uret' = [op |-> "Handle", router |-> rt]
    /\ UNCHANGED <<uver, routers, arrays>>

\* the handler that serves a request of the route: Route.handler of
\* src/unnamed/part_008 wraps the bound handler by the middleware of the
\* route, the first of them outermost; router.go serves what Handle stored
Route_handler(ver, arrs, route) ==
    IF ver = "part_008" THEN contents(arrs, route.Middleware) \o route.Handlers[""]
    ELSE route.Handlers[""]

UseNext ==
    \/ \E rt \in DOMAIN routers : RouterUse(rt)
    \/ \E rt \in DOMAIN routers : RouterGroup(rt)
    \/ \E rt \in DOMAIN routers : UseRoute(rt)
    \/ \E rt \in DOMAIN routers : UseHandle(rt)

\* a pattern without and with a trailing slash; the request paths are the same
SlashPatterns == {<<"/", "f", "o", "o">>, <<"/", "f", "o", "o", "/">>}

\* both routers are given the two patterns and the two request paths
SlashNext ==
    \/ \E pattern \in SlashPatterns : RouterRoute(pattern) /\ UNCHANGED mpathVars
    \/ \E path \in SlashPatterns : MuxyMatch(path) /\ UNCHANGED mpathVars
    \/ \E pattern \in SlashPatterns : MpathRoute(pattern) /\ UNCHANGED muxyVars
    \/ \E path \in SlashPatterns : MpathMatch(path, "GET") /\ UNCHANGED muxyVars

\* ------------------------------------------------------------------------
\* The parsers on their own, as TestParsePaths drives them.
\*   input   the pattern
\*   output  what parse of src/parser.go and parse of the second version of
\*           src/unnamed/part_000 return for it with the separator '/', what
\*           parts.raw renders of the former, and what the second version
\*           returns for it with the separator '.'
VARIABLES
    input,
    output

parseVars == <<input, output>>

\* the characters of the patterns parsed
ParseAlphabet == {"/", "{", "}", "*", "a", "1", "%", "_", "U+00E9", "U+0663"}

\* the patterns with escapes of parserTests, and two host patterns
EscapePatterns ==
    {<<"/", "f", "o", "o", "%", "2", "f", "b", "a", "r">>,
     <<"/", "%", "E", "4", "%", "B", "8", "%", "9", "6", "%", "E", "7", "%",
       "9", "5", "%", "8", "C">>,
     <<"/", "%", "2", "5">>,
     <<"m", "y", ".", "d", "o", "%", "2", "e", "m", "a", "i", "n", ".", "c",
      "o", "m">>,
     <<"m", "y", ".", "d", "o", "%", "m", "a", "i", "n", ".", "c", "o", "m">>}

\* the patterns parsed
ParseInputs == UNION {[1..n -> ParseAlphabet] : n \in 0..MaxLen} \cup EscapePatterns

\* the text parts.raw writes for one part
rawPart(v) ==
    CASE v.typ = staticPart -> v.val
      [] v.typ = variablePart -> <<"{">> \o v.val \o <<"}">>
      [] OTHER -> <<"{", "*", "}">>

RECURSIVE rawLoop(_, _, _)
\* the loop of parts.raw from the part k on
rawLoop(p, sep, k) ==
    IF k > Len(p) THEN <<>>
    ELSE rawPart(p[k]) \o (IF k < Len(p) THEN <<sep>> ELSE <<>>)
            \o rawLoop(p, sep, k + 1)

\* parts.raw: the pattern string of a list of parts
raw(p, sep) == (IF sep = "/" THEN <<sep>> ELSE <<>>) \o rawLoop(p, sep, 1)

NoOutput ==
    [done |-> FALSE, parser |-> [err |-> FALSE, dst |-> <<>>],
     part000 |-> [err |-> FALSE, dst |-> <<>>], raw |-> <<>>,
     host |-> [err |-> FALSE, dst |-> <<>>]]

\* no pattern is parsed
ParseInit ==
    /\ input = <<>>
    /\ output = NoOutput

\* parse(input, '/')
ParsePath ==
    /\ ~output.done
    /\ \E r \in {parse(input, "/")} :
          output' = [done |-> TRUE, parser |-> r,
                     part000 |-> parse_part000(input, "/"),
                     raw |-> IF r.err THEN <<>> ELSE raw(r.dst, "/"),
                     host |-> parse_part000(input, ".")]
    /\ UNCHANGED input

\* ------------------------------------------------------------------------
\* The router versions that keep the route variables of a request in a map
\* of the process, keyed by the request: Router.ServeHTTP of
\* src/parser_test.go and of src/unnamed/part_008 (first version).
\*   vver          the version of ServeHTTP
\*   panicHandler  Router.panicHandler of part_008: "nil" or "set"
\*   varsMap       the map vars: the variables stored for each request
\*   calls         for each request, where its call of ServeHTTP stands:
\*                 "new" (not served yet), "matched" (Match returned a
\*                 handler), "handler" (the handler runs), "delete" (the
\*                 handler returned, parser_test.go), "deferred" (the
\*                 deferred function runs, part_008), "panicHandler" (the
\*                 panic handler runs), "deferredDelete" (it returned),
\*                 "returned", "unwound" (ServeHTTP ended in a panic)

VARIABLES vver, panicHandler, varsMap, calls

reqVars == <<vver, panicHandler, varsMap, calls>>

\* the requests the server is given
MaxRequests == 3

Requests == 1..MaxRequests

\* the variables Match returns with a handler
MatchedVars == {<<>>, << <<"x", "V1">> >>}

NewCall == [pc |-> "new", v |-> <<>>, panicking |-> FALSE]

\* setVars: under the mutex
vars_set(m, q, v) == [x \in DOMAIN m \cup {q} |-> IF x = q THEN v ELSE m[x]]

\* deleteVars: under the mutex
vars_delete(m, q) == [x \in DOMAIN m \ {q} |-> m[x]]

VarsInit ==
    /\ vver = "part_008"
    /\ panicHandler = "nil"
    /\ varsMap = << >>
    /\ calls = [q \in Requests |-> NewCall]

\* ServeHTTP up to the return of Match: with a handler the variables are
\* kept for setVars, without one http.NotFound answers and ServeHTTP
\* returns (part_008: through its deferred function)
ServeHTTPMatch(q, found, v) ==
    /\ calls[q].pc = "new"
    /\ calls' = [calls EXCEPT ![q] =
                    IF found THEN [@ EXCEPT !.pc = "matched", !.v = v]
                    ELSE IF vver = "part_008" THEN [@ EXCEPT !.pc = "deferred"]
                    ELSE [@ EXCEPT !.pc = "returned"]]
    /\ UNCHANGED <<vver, panicHandler, varsMap>>

\* setVars(req, v), then the handler is called
ServeHTTPSetVars(q) ==
    /\ calls[q].pc = "matched"
    /\ varsMap' = vars_set(varsMap, q, calls[q].v)
    /\ calls' = [calls EXCEPT ![q].pc = "handler"]
    /\ UNCHANGED <<vver, panicHandler>>

\* h.ServeHTTP(w, req) returns
HandlerReturns(q) ==
    /\ calls[q].pc = "handler"
    /\ calls' = [calls EXCEPT ![q].pc =
                    IF vver = "part_008" THEN "deferred" ELSE "delete"]
    /\ UNCHANGED <<vver, panicHandler, varsMap>>

\* h.ServeHTTP(w, req) panics: the rest of ServeHTTP is skipped, a deferred
\* function runs (part_008) and without one ServeHTTP has unwound
HandlerPanics(q) ==
    /\ calls[q].pc = "handler"
    /\ calls' = [calls EXCEPT ![q] =
                    IF vver = "part_008"
                    THEN [@ EXCEPT !.pc = "deferred", !.panicking = TRUE]
                    ELSE [@ EXCEPT !.pc = "unwound", !.panicking = TRUE]]
    /\ UNCHANGED <<vver, panicHandler, varsMap>>

\* deleteVars(req) after the handler returned, then return (parser_test.go)
ServeHTTPDelete(q) ==
    /\ calls[q].pc = "delete"
    /\ varsMap' = vars_delete(varsMap, q)
    /\ calls' = [calls EXCEPT ![q].pc = "returned"]
    /\ UNCHANGED <<vver, panicHandler>>

\* the deferred function of part_008 with a panic handler and a panic:
\* recover() ends the panic and r.panicHandler(w, req, v) is called
ServeHTTPRecover(q) ==
    /\ calls[q].pc = "deferred"
    /\ panicHandler = "set"
    /\ calls[q].panicking
    /\ calls' = [calls EXCEPT ![q] = [@ EXCEPT !.pc = "panicHandler",
                                                !.panicking = FALSE]]
    /\ UNCHANGED <<vver, panicHandler, varsMap>>

\* r.panicHandler(w, req, v) returns
PanicHandlerReturns(q) ==
    /\ calls[q].pc = "panicHandler"
    /\ calls' = [calls EXCEPT ![q].pc = "deferredDelete"]
    /\ UNCHANGED <<vver, panicHandler, varsMap>>

\* r.panicHandler(w, req, v) panics: the rest of the deferred function is
\* skipped and ServeHTTP has unwound
PanicHandlerPanics(q) ==
    /\ calls[q].pc = "panicHandler"
    /\ calls' = [calls EXCEPT ![q] = [@ EXCEPT !.pc = "unwound",
                                                !.panicking = TRUE]]
    /\ UNCHANGED <<vver, panicHandler, varsMap>>

\* deleteVars(req) of the deferred function of part_008: after the panic
\* handler, or at once without a panic handler or without a panic; a panic
\* that was not recovered goes on
ServeHTTPDeferredDelete(q) ==
    /\ \/ calls[q].pc = "deferredDelete"
       \/ calls[q].pc = "deferred" /\ ~(panicHandler = "set" /\ calls[q].panicking)
    /\ varsMap' = vars_delete(varsMap, q)
    /\ calls' = [calls EXCEPT ![q].pc =
                    IF calls[q].panicking THEN "unwound" ELSE "returned"]
    /\ UNCHANGED <<vver, panicHandler>>

\* requests served at the same time, each in its own goroutine
VarsNext ==
    \/ \E q \in Requests, found \in BOOLEAN, v \in MatchedVars :
          ServeHTTPMatch(q, found, v)
    \/ \E q \in Requests : ServeHTTPSetVars(q)
    \/ \E q \in Requests : HandlerReturns(q)
    \/ \E q \in Requests : HandlerPanics(q)
    \/ \E q \in Requests : ServeHTTPDelete(q)
    \/ \E q \in Requests : ServeHTTPRecover(q)
    \/ \E q \in Requests : PanicHandlerReturns(q)
    \/ \E q \in Requests : PanicHandlerPanics(q)
    \/ \E q \in Requests : ServeHTTPDeferredDelete(q)

vars == <<muxyVars, mpathVars, dispatchVars, parseVars, serveVars, useVars, reqVars>>

Init ==
    MuxyInit /\ MpathInit /\ DispatchInit /\ ParseInit /\ ServeInit /\ UseInit /\ VarsInit

\* the parsers are given any pattern of the alphabet
InitParse ==
    /\ MuxyInit
    /\ MpathInit
    /\ DispatchInit
    /\ input \in ParseInputs
    /\ output = NoOutput
    /\ ServeInit
    /\ UseInit
    /\ VarsInit

\* either version of the router is given middleware
InitUse ==
    /\ MuxyInit
    /\ MpathInit
    /\ DispatchInit
    /\ ParseInit
    /\ ServeInit
    /\ uver \in {"router.go", "part_008"}
    /\ routers = [x \in {"r"} |-> [Middleware |-> nilSlice, from |-> ""]]
    /\ arrays = << >>
    /\ mroutes = << >>
    /\ uret = NoUse
    /\ VarsInit

Next == MpathNext /\ UNCHANGED <<muxyVars, dispatchVars, parseVars, serveVars, useVars, reqVars>>

NextMuxy == MuxyNext /\ UNCHANGED <<mpathVars, dispatchVars, parseVars, serveVars, useVars, reqVars>>

NextDispatch == DispatchNext /\ UNCHANGED <<muxyVars, mpathVars, parseVars, serveVars, useVars, reqVars>>

NextTestMatch == TestMatchNext /\ UNCHANGED <<mpathVars, dispatchVars, parseVars, serveVars, useVars, reqVars>>

NextNames == NamesNext /\ UNCHANGED <<muxyVars, dispatchVars, parseVars, serveVars, useVars, reqVars>>

NextBuild == BuildNext /\ UNCHANGED <<muxyVars, dispatchVars, parseVars, serveVars, useVars, reqVars>>

NextSlash == SlashNext /\ UNCHANGED <<dispatchVars, parseVars, serveVars, useVars, reqVars>>

NextServe == ServeNext /\ UNCHANGED <<muxyVars, dispatchVars, parseVars, useVars, reqVars>>

NextUse ==
    UseNext /\ UNCHANGED <<muxyVars, mpathVars, dispatchVars, parseVars, serveVars, reqVars>>

NextParse == ParsePath /\ UNCHANGED <<muxyVars, mpathVars, dispatchVars, serveVars, useVars, reqVars>>

Spec == Init /\ [][Next]_vars

SpecMuxy == Init /\ [][NextMuxy]_vars

SpecDispatch == Init /\ [][NextDispatch]_vars

SpecTestMatch == Init /\ [][NextTestMatch]_vars

SpecNames == Init /\ [][NextNames]_vars

SpecBuild == Init /\ [][NextBuild]_vars

SpecSlash == Init /\ [][NextSlash]_vars

SpecServe == Init /\ [][NextServe]_vars

\* the server runs either version; only part_008 has a panic handler
InitVars ==
    /\ MuxyInit
    /\ MpathInit
    /\ DispatchInit
    /\ ParseInit
    /\ ServeInit
    /\ UseInit
    /\ \/ vver = "parser_test.go" /\ panicHandler = "nil"
       \/ vver = "part_008" /\ panicHandler \in {"nil", "set"}
    /\ varsMap = << >>
    /\ calls = [q \in Requests |-> NewCall]

NextVars ==
    VarsNext /\ UNCHANGED <<muxyVars, mpathVars, dispatchVars, parseVars, serveVars, useVars>>

SpecVars == InitVars /\ [][NextVars]_vars

SpecUse == InitUse /\ [][NextUse]_vars

SpecParse == InitParse /\ [][NextParse]_vars

\* ------------------------------------------------------------------------
\* Properties.  In mret and ret, route is the route of the node the matcher
\* ended at (NIL when it ended nowhere or at a node without a route).

\* C1: at every path level the static edge is preferred to the variable edge
\* and the variable edge to the wildcard edge: with the routes /a/b, /a/:x and
\* /a/* registered, in any order, /a/b matches the static route, /a/c the
\* variable route and /a/c/d the wildcard route.
C1_PriorityOrdering ==
    (mret.op = "Match" /\ DOMAIN heap = {mp_a_b, mp_a_x, mp_a_w}) =>
        /\ mret.path = req_a_b => mret.route = mp_a_b
        /\ mret.path = req_a_c => mret.route = mp_a_x
        /\ mret.path = req_a_c_d => mret.route = mp_a_w

\* C2: path matching backtracks fully: with the routes /a/:x/c and /a/b/d
\* registered, /a/b/d matches the static route, /a/z/c the variable route, and
\* /a/b/c, for which the static edge b leads nowhere, the variable route.
C2_FullBacktracking ==
    (mret.op = "Match" /\ DOMAIN heap = {mp_a_x_c, mp_a_b_d}) =>
        /\ mret.path = req_a_b_d => mret.route = mp_a_b_d
        /\ mret.path = req_a_z_c => mret.route = mp_a_x_c
        /\ mret.path = req_a_b_c => mret.route = mp_a_x_c

\* whether the segments ps of a pattern of the Router over matcher.go match
\* the segments rs of a request path, segment by segment
RECURSIVE SegmentsMatch(_, _)
SegmentsMatch(ps, rs) ==
    IF ps = <<>> THEN rs = <<>>
    ELSE IF rs = <<>> THEN FALSE
    ELSE IF Head(ps) = <<"{", "*", "}">> THEN TRUE
    ELSE IF Head(ps)[1] = "{" THEN SegmentsMatch(Tail(ps), Tail(rs))
    ELSE Head(ps) = Head(rs) /\ SegmentsMatch(Tail(ps), Tail(rs))

\* whether a path pattern matches a request path
PatternMatches(pattern, path) ==
    SegmentsMatch(Split(From(pattern, 1)), Split(From(path, 1)))

\* C3: match returns no route only when no registered pattern matches the
\* request, a branch being taken only if it ends at a node with a route: with
\* the routes /a/b/c and /a/{x} registered, /a/b returns the route /a/{x}.
C3_NoneOnlyWhenNoPatternMatches ==
    ret.op = "match" =>
        /\ ret.route = NIL =>
              \A pattern \in DOMAIN routes : ~PatternMatches(pattern, ret.path)
        /\ (DOMAIN routes = {pat_a_b_c, pat_a_x} /\ ret.path = req_a_b) =>
              ret.route = pat_a_x

\* the variables a pattern of the mpath matcher binds in a request path, by
\* position: a ":name" segment binds name to the request segment at its
\* position, "*" binds "*" to the rest of the path; as <<keys, values>>
RECURSIVE BindingsAt(_, _)
BindingsAt(ps, rs) ==
    IF ps = <<>> \/ rs = <<>> THEN <<<<>>, <<>>>>
    ELSE IF Head(ps) = <<"*">> THEN <<<<Head(ps)>>, <<Join(rs)>>>>
    ELSE LET rest == BindingsAt(Tail(ps), Tail(rs)) IN
         IF Head(ps)[1] = ":"
         THEN <<<<From(Head(ps), 1)>> \o rest[1], <<Head(rs)>> \o rest[2]>>
         ELSE rest

\* C4: after a successful match each variable of the route's pattern is bound
\* to the request segment at the variable's position and a final wildcard to
\* the whole rest of the path, slashes included.
C4_VariablesBoundByPosition ==
    (mret.op = "Match" /\ mret.handler.kind # "notFound") =>
        <<mret.keys, mret.values>> =
            BindingsAt(Split(From(heap[mret.route].Pattern, 1)),
                       Split(From(mret.path, 1)))

\* C4 happens: /foo/:bar/baz/:qux/* matched /foo/V1/baz/V2/x/y/z and bound
\* bar=V1, qux=V2, *=x/y/z
C4_Witness ==
    /\ mret.op = "Match"
    /\ mret.route = mp_foo
    /\ mret.path = req_foo
    /\ mret.handler.kind = "bound"
    /\ mret.keys = <<<<"b", "a", "r">>, <<"q", "u", "x">>, <<"*">>>>
    /\ mret.values = <<<<"V", "1">>, <<"V", "2">>, <<"x", "/", "y", "/", "z">>>>

\* what a handler is, the order of its Allow header apart
Answer(h) == [kind |-> h.kind, h |-> h.h, code |-> h.code]

\* the selection C5 states: the method's handler; for HEAD the GET handler;
\* for a method other than OPTIONS the default handler; else 405, or 200 when
\* the method is OPTIONS and there is no default handler
SelectionAsClaimed(handlers, method) ==
    IF method \in DOMAIN handlers THEN Answer(boundHandler(handlers[method]))
    ELSE IF method = "HEAD" /\ "GET" \in DOMAIN handlers
    THEN Answer(boundHandler(handlers["GET"]))
    ELSE IF method # "OPTIONS" /\ "" \in DOMAIN handlers
    THEN Answer(boundHandler(handlers[""]))
    ELSE [kind |-> "allow", h |-> "",
          code |-> IF method = "OPTIONS" /\ "" \notin DOMAIN handlers THEN 200 ELSE 405]

\* the selection with the synthesized answer to OPTIONS always 200
SelectionAmended(handlers, method) ==
    IF method \in DOMAIN handlers THEN Answer(boundHandler(handlers[method]))
    ELSE IF method = "HEAD" /\ "GET" \in DOMAIN handlers
    THEN Answer(boundHandler(handlers["GET"]))
    ELSE IF method # "OPTIONS" /\ "" \in DOMAIN handlers
    THEN Answer(boundHandler(handlers[""]))
    ELSE [kind |-> "allow", h |-> "", code |-> IF method = "OPTIONS" THEN 200 ELSE 405]

C6_DefaultBeforeOptions ==
    (looked.method = "OPTIONS" /\ "OPTIONS" \notin DOMAIN Handlers) =>
        /\ "" \in DOMAIN Handlers =>
              /\ looked.route = boundHandler(Handlers[""])
              /\ looked.mpath = boundHandler(Handlers[""])
        /\ (looked.route.kind = "allow" /\ looked.route.code = 200) =>
              "" \notin DOMAIN Handlers
        /\ (looked.mpath.kind = "allow" /\ looked.mpath.code = 200) =>
              "" \notin DOMAIN Handlers

\* the place of a method in the sorted order of the methods of the model
MethodRank(m) ==
    CASE m = "GET" -> 1
      [] m = "HEAD" -> 2
      [] m = "OPTIONS" -> 3
      [] m = "POST" -> 4
      [] m = "PUT" -> 5

\* whether the methods of an Allow header other than OPTIONS are in sorted order
BoundSorted(allow) ==
    \A i, j \in 1..Len(allow) :
        (i < j /\ allow[i] # "OPTIONS" /\ allow[j] # "OPTIONS") =>
            MethodRank(allow[i]) < MethodRank(allow[j])

\* C7: the Allow header of the synthesized handlers is a function of the set
\* of bound methods: it lists the bound methods, the default key excluded, in
\* sorted order, plus OPTIONS, so two calls on the same route produce the
\* identical header.
C7_AllowDeterministic ==
    [][\A f \in {"route", "mpath"} :
          looked'[f].kind = "allow" =>
              /\ {looked'[f].allow[i] : i \in 1..Len(looked'[f].allow)} =
                    (DOMAIN Handlers' \ {""}) \cup {"OPTIONS"}
              /\ BoundSorted(looked'[f].allow)
              /\ (looked[f].kind = "allow" /\ Handlers' = Handlers) =>
                    JoinAllow(looked'[f].allow) = JoinAllow(looked[f].allow)]_vars

\* C8: for a route whose only handler is GET, the synthesized answers to
\* OPTIONS (200) and to POST (405) both carry Allow: GET, HEAD, OPTIONS.
C8_AllowAdvertisesHead ==
    (DOMAIN Handlers = {"GET"} /\ looked.method \in {"OPTIONS", "POST"}) =>
        \A f \in {"route", "mpath"} :
            /\ looked[f].kind = "allow"
            /\ looked[f].code = IF looked.method = "OPTIONS" THEN 200 ELSE 405
            /\ JoinAllow(looked[f].allow) = <<"GET", ", ", "HEAD", ", ", "OPTIONS">>

\* C9: a request whose path matches a registered route is never answered as
\* not found because of its method: when the route has no handler for the
\* method and no default handler, a route with no handler at all included,
\* the answer is the synthesized 405, or 200 for OPTIONS.
C9_MatchedNeverNotFound ==
    (mret.op = "Match" /\ mret.route # NIL) =>
        /\ mret.handler.kind # "notFound"
        /\ (/\ mret.method \notin DOMAIN heap[mret.route].Handlers
            /\ "" \notin DOMAIN heap[mret.route].Handlers
            /\ ~(mret.method = "HEAD" /\ "GET" \in DOMAIN heap[mret.route].Handlers)) =>
              /\ mret.handler.kind = "allow"
              /\ mret.handler.code = IF mret.method = "OPTIONS" THEN 200 ELSE 405

\* C10: registering the identical pattern string a second time returns the
\* route of the first call, raises no error and adds no node to the trie.
C10_IdempotentRegistration ==
    [][(mret'.op = "Route" /\ mret'.pattern \in DOMAIN heap) =>
          /\ mret'.route = mret'.pattern
          /\ ~mret'.panic
          /\ ~mret'.err
          /\ root' = root
          /\ heap' = heap]_vars

\* the shape of a pattern of mpath: a variable segment is the same segment
\* under every name
SegmentShape(seg) == IF seg # <<>> /\ seg[1] = ":" THEN <<":">> ELSE seg

\* whether two patterns, each variable of which has a name, differ in the
\* names of their variables only
Equivalent(p, q) ==
    LET ps == Split(From(p, 1))
        qs == Split(From(q, 1))
    IN /\ Len(ps) = Len(qs)
       /\ \A i \in 1..Len(ps) :
             /\ ps[i] # <<":">>
             /\ qs[i] # <<":">>
             /\ SegmentShape(ps[i]) = SegmentShape(qs[i])

\* C11: registering a pattern that differs from a registered one in its
\* variable names only fails with the duplicate-pattern error, the error
\* reports the pattern string of the existing route, the existing route keeps
\* its pattern, name and handlers, and the trie gains no node and no leaf.
C11_EquivalentPatternRejected ==
    [][\A q \in DOMAIN heap :
          (/\ mret'.op = "Route"
           /\ mret'.pattern # q
           /\ Equivalent(q, mret'.pattern)) =>
             /\ mret'.err
             /\ mret'.route = NIL
             /\ mret'.reported = q
             /\ heap' = heap
             /\ Routes' = Routes
             /\ root' = root
             /\ nleaf' = nleaf
             /\ patterns' = patterns]_vars

\* /a/:y was refused because /a/:x is registered, and /a/:x has its handler
C11_Witness ==
    /\ mret.op = "Route"
    /\ mret.pattern = mp_a_y
    /\ mret.err
    /\ mret.reported = mp_a_x
    /\ mp_a_x \in DOMAIN heap
    /\ "GET" \in DOMAIN heap[mp_a_x].Handlers

\* C12: a registration that fails because the scheme, the host or the path of
\* the pattern does not parse leaves the trie, the wrapping level of the
\* matcher and the route table as they were; no scheme or host node stays
\* behind when scheme and host parse and the path does not.
C12_ParseErrorChangesNothing ==
    [][(ret'.op = "Route" /\ ret'.parseErr) =>
          /\ edges' = edges
          /\ mtype' = mtype
          /\ leaf' = leaf
          /\ routes' = routes]_vars

\* C13: Name with a name that is in the name index already is rejected and
\* changes nothing: the index maps the name to its owner and gains no entry,
\* and the route that was being named keeps the name field it had.
C13_DuplicateNameChangesNothing ==
    [][(mret'.op = "Name" /\ mret'.name \in DOMAIN NamedRoutes) =>
          /\ mret'.panic
          /\ NamedRoutes' = NamedRoutes
          /\ heap'[mret'.route].Noun = heap[mret'.route].Noun]_vars

\* whether a pattern of mpath has neither a variable nor a wildcard segment
StaticOnly(pattern) == \A i \in 1..Len(pattern) : pattern[i] \notin {":", "*"}

\* C14: for every static-only pattern, "/" and the patterns with a trailing
\* slash included, registering it and then calling Build with no bindings
\* returns exactly the original pattern string.
C14_StaticBuildRoundTrip ==
    [][(/\ mret'.op = "Route"
        /\ StaticOnly(mret'.pattern)
        /\ mret'.pattern \notin DOMAIN heap) =>
          /\ ~mret'.panic
          /\ mret'.route # NIL
          /\ matcher_Build([root |-> root', nleaf |-> nleaf', patterns |-> patterns'],
                           mret'.route, <<>>).err = FALSE
          /\ matcher_Build([root |-> root', nleaf |-> nleaf', patterns |-> patterns'],
                           mret'.route, <<>>).url = mret'.pattern]_vars

\* how many of the bindings vs, which are name, value, name, value, ..., have
\* the name n
BindingCount(vs, n) ==
    Cardinality({i \in 1..(Len(vs) \div 2) : vs[2 * i - 1] = n})

\* how many variable segments of a pattern of mpath have the name n, the
\* wildcard segment having the name "*"
SegmentCount(segs, n) ==
    Cardinality({i \in 1..Len(segs) :
                    \/ segs[i] = <<"*">> /\ n = <<"*">>
                    \/ segs[i] # <<>> /\ segs[i][1] = ":" /\ From(segs[i], 1) = n})

\* the bindings name exactly the variable and wildcard segments
ExactBindings(vs, segs) ==
    /\ Len(vs) % 2 = 0
    /\ \A i \in 1..(Len(vs) \div 2) :
          BindingCount(vs, vs[2 * i - 1]) = SegmentCount(segs, vs[2 * i - 1])
    /\ \A i \in 1..Len(segs) :
          /\ segs[i] = <<"*">> => BindingCount(vs, segs[i]) = SegmentCount(segs, segs[i])
          /\ (segs[i] # <<>> /\ segs[i][1] = ":") =>
                BindingCount(vs, From(segs[i], 1)) = SegmentCount(segs, From(segs[i], 1))

\* C15: Build of a registered route succeeds only when the bindings name
\* exactly the variable and wildcard segments of its pattern, one binding for
\* each; with a segment that has no binding or a binding that names no
\* segment it returns an error, and with an error the empty string.
C15_BuildNeedsExactBindings ==
    (mret.op = "Build" /\ mret.route \in DOMAIN heap) =>
        /\ ~mret.err <=>
              ExactBindings(mret.vars, Split(From(mret.route, 1)))
        /\ mret.err => mret.url = <<>>

\* /:x/* built with a binding of each, /:x/:x refused a binding of y
C15_Witness ==
    /\ mret.op = "Build"
    /\ mp_x_w \in DOMAIN heap
    /\ mp_x_x \in DOMAIN heap
    /\ \/ /\ mret.route = mp_x_w
          /\ ~mret.err
          /\ mret.url = <<"/", "V", "1", "/", "c", "/", "d">>
       \/ /\ mret.route = mp_x_x
          /\ mret.err
          /\ mret.vars = <<<<"x">>, <<"V", "1">>, <<"y">>, <<"V", "2">>>>

\* strings.Split(s, ".")
RECURSIVE Labels(_)
Labels(s) ==
    IF IndexByte(s, ".") < 0 THEN <<s>>
    ELSE <<Slice(s, 0, IndexByte(s, "."))>> \o Labels(From(s, IndexByte(s, ".") + 1))

\* whether the pattern p of the scheme/host/path router fits the request URL
\* u: an absent scheme, host or path fits every one, a host fits label by
\* label and a path segment by segment
PatternFits(p, u) ==
    /\ url_Parse(p).Scheme \in {<<>>, u.Scheme}
    /\ \/ url_Parse(p).Host = <<>>
       \/ SegmentsMatch(Labels(url_Parse(p).Host), Labels(u.Host))
    /\ \/ url_Parse(p).Path = <<>>
       \/ PatternMatches(url_Parse(p).Path, u.Path)

\* whether a pattern has neither scheme nor host
PathOnly(p) == url_Parse(p).Scheme = <<>> /\ url_Parse(p).Host = <<>>

\* the request of the last match
Request == [Scheme |-> ret.scheme, Host |-> ret.host, Path |-> ret.path]

\* C16: once a pattern with a host or a scheme is registered, a request with
\* any scheme and host whose path matches a path-only route returns a route,
\* and returns a path-only route that fits it when no route with a host or a
\* scheme fits the whole request.
C16_PathOnlyStaysReachable ==
    (/\ ret.op = "match"
     /\ mtype # "path"
     /\ \E p \in DOMAIN routes : PathOnly(p) /\ PatternFits(p, Request)) =>
        /\ ret.route # NIL
        /\ (\A q \in DOMAIN routes : PatternFits(q, Request) => PathOnly(q)) =>
              PathOnly(ret.route) /\ PatternFits(ret.route, Request)

\* how specific a segment or label of a pattern is: static, variable, wildcard
SegmentRank(seg) ==
    IF seg = <<"{", "*", "}">> THEN 0
    ELSE IF seg # <<>> /\ seg[1] = "{" THEN 1
    ELSE 2

\* how specific a pattern is: its scheme, then its host labels, then its path
\* segments; an absent scheme, host or path is a wildcard
Specificity(p) ==
    <<IF url_Parse(p).Scheme = <<>> THEN 0 ELSE 2>>
    \o (IF url_Parse(p).Host = <<>> THEN <<0>>
        ELSE [i \in 1..Len(Labels(url_Parse(p).Host)) |->
                SegmentRank(Labels(url_Parse(p).Host)[i])])
    \o (IF url_Parse(p).Path = <<>> THEN <<0>>
        ELSE [i \in 1..Len(Split(From(url_Parse(p).Path, 1))) |->
                SegmentRank(Split(From(url_Parse(p).Path, 1))[i])])

\* whether a comes before b in the order of the first difference
RECURSIVE Before(_, _)
Before(a, b) ==
    IF a = <<>> \/ b = <<>> THEN FALSE
    ELSE Head(a) > Head(b) \/ (Head(a) = Head(b) /\ Before(Tail(a), Tail(b)))

\* every pattern of matchTests is registered
TestMatchRegistered == \A i \in 1..Len(matchTests) : matchTests[i].pattern \in DOMAIN routes

\* C17: with the patterns of TestMatch registered together, a request built
\* for one of the patterns returns the route of that pattern, and every
\* request that a pattern fits returns the most specific pattern that fits
\* it: a literal scheme before the wildcard scheme, a static host label
\* before a variable one and both before the wildcard host.
C17_MostSpecificPattern ==
    (ret.op = "match" /\ TestMatchRegistered) =>
        /\ \A i \in 1..Len(matchTests) :
              (/\ url_Parse(matchTests[i].url).Scheme = ret.scheme
               /\ url_Parse(matchTests[i].url).Host = ret.host
               /\ url_Parse(matchTests[i].url).Path = ret.path) =>
                 ret.route = matchTests[i].pattern
        /\ (\E p \in DOMAIN routes : PatternFits(p, Request)) =>
              /\ ret.route # NIL
              /\ PatternFits(ret.route, Request)
              /\ \A q \in DOMAIN routes :
                    PatternFits(q, Request) =>
                       ~Before(Specificity(q), Specificity(ret.route))

\* C18: after dst.Mount(src) every route of src exists in dst under dst's
\* pattern prefix and name prefix, with handlers for exactly the method keys
\* it has in src, the default key included; for every src, one with several
\* unnamed routes included.
C18_MountCopiesEveryRoute ==
    mret.op = "Mount" =>
        /\ ~mret.panic
        /\ \A k \in DOMAIN heap :
              /\ mret.pattern \o heap[k].Pattern \in DOMAIN mret.mounted.heap
              /\ mret.mounted.heap[mret.pattern \o heap[k].Pattern].Pattern =
                    mret.pattern \o heap[k].Pattern
              /\ mret.mounted.heap[mret.pattern \o heap[k].Pattern].Noun =
                    mret.name \o heap[k].Noun
              /\ DOMAIN mret.mounted.heap[mret.pattern \o heap[k].Pattern].Handlers =
                    DOMAIN heap[k].Handlers

\* the segments of a path pattern: what lies between its separators, the
\* leading one apart
PathSegments(p) == IF p # <<>> /\ p[1] = "/" THEN Split(From(p, 1)) ELSE Split(p)

\* a segment in which a brace does anything but enclose the whole of it
BraceMisused(seg) ==
    /\ \E i \in 1..Len(seg) : seg[i] \in {"{", "}"}
    /\ \/ seg[1] # "{"
       \/ seg[Len(seg)] # "}"
       \/ \E i \in 2..(Len(seg) - 1) : seg[i] \in {"{", "}"}

\* a '%' of a segment that two hex digits do not follow
BadEscape(seg) ==
    \E i \in 1..Len(seg) :
       /\ seg[i] = "%"
       /\ ~(i + 2 <= Len(seg) /\ isHex(seg[i + 1]) /\ isHex(seg[i + 2]))

\* the malformed path patterns: a doubled separator, a brace that does not
\* enclose a whole segment (an unclosed or doubly closed variable included),
\* a wildcard that something follows, a variable name that starts with a
\* digit or '*', a pattern that does not start with '/', a malformed escape
Malformed(p) ==
    \/ p = <<>>
    \/ p[1] # "/"
    \/ \E i \in 1..(Len(p) - 1) : p[i] = "/" /\ p[i + 1] = "/"
    \/ \E i \in 1..Len(PathSegments(p)) :
          \/ BraceMisused(PathSegments(p)[i])
          \/ PathSegments(p)[i] = <<"{", "*", "}">> /\ i < Len(PathSegments(p))
          \/ /\ Len(PathSegments(p)[i]) > 3
             /\ PathSegments(p)[i][1] = "{"
             /\ PathSegments(p)[i][2] \in {"*", "1", "U+0663"}
          \/ /\ PathSegments(p)[i] # <<>>
             /\ PathSegments(p)[i][1] # "{"
             /\ BadEscape(PathSegments(p)[i])

\* C19: parse with the separator '/' returns an error and no segments for
\* every malformed pattern: a doubled separator, '{' or '}' anywhere but
\* enclosing a whole segment, an unclosed or doubly closed variable, a
\* wildcard followed by anything, a variable name starting with a digit or
\* '*', a pattern that does not start with '/', a malformed percent escape.
C19_MalformedRejected ==
    (output.done /\ Malformed(input)) =>
        /\ output.parser.err
        /\ output.parser.dst = <<>>
        /\ output.part000.err
        /\ output.part000.dst = <<>>

\* whether a name matches [A-Za-z_][A-Za-z0-9_]*, on the alphabet of the model
AsciiName(name) ==
    /\ name # <<>>
    /\ name[1] \in {"a", "_"}
    /\ \A i \in 1..Len(name) : name[i] \in {"a", "_", "1"}

\* C20: a segment in braces is accepted as a variable only when its name
\* matches [A-Za-z_][A-Za-z0-9_]*; every other name, one with a letter or a
\* digit outside ASCII included, is rejected.
C20_VariableNamesAreAscii ==
    output.done =>
        /\ \A i \in 1..Len(output.parser.dst) :
              output.parser.dst[i].typ = variablePart =>
                 AsciiName(output.parser.dst[i].val)
        /\ \A i \in 1..Len(output.part000.dst) :
              output.part000.dst[i].typ = variablePart =>
                 AsciiName(output.part000.dst[i].val)

\* the pattern text of a part: what the segment it was parsed from reads
PartText(v) ==
    CASE v.typ = staticPart -> v.val
      [] v.typ = variablePart -> <<"{">> \o v.val \o <<"}">>
      [] OTHER -> <<"{", "*", "}">>

\* C21: parse returns the parts of an accepted pattern in left-to-right
\* order, one per separator-delimited segment (a final empty static part
\* for a trailing separator), and raw renders them back to the pattern
\* string that was parsed.
C21_RawReproducesPattern ==
    (output.done /\ ~output.parser.err) =>
        /\ Len(output.parser.dst) = Len(PathSegments(input))
        /\ \A k \in 1..Len(output.parser.dst) :
              PartText(output.parser.dst[k]) = PathSegments(input)[k]
        /\ output.raw = input

\* the segments of s between the separators sep
RECURSIVE SegmentsOf(_, _)
SegmentsOf(s, sep) ==
    IF \A i \in 1..Len(s) : s[i] # sep THEN <<s>>
    ELSE LET i == CHOOSE i \in 1..Len(s) :
                     s[i] = sep /\ \A j \in 1..(i - 1) : s[j] # sep
         IN <<SubSeq(s, 1, i - 1)>> \o SegmentsOf(SubSeq(s, i + 1, Len(s)), sep)

\* the value of a hex digit
HexVal(c) ==
    CASE c = "0" -> 0 [] c = "1" -> 1 [] c = "2" -> 2 [] c = "3" -> 3
      [] c = "4" -> 4 [] c = "5" -> 5 [] c = "6" -> 6 [] c = "7" -> 7
      [] c = "8" -> 8 [] c = "9" -> 9
      [] c \in {"a", "A"} -> 10 [] c \in {"b", "B"} -> 11
      [] c \in {"c", "C"} -> 12 [] c \in {"d", "D"} -> 13
      [] c \in {"e", "E"} -> 14 [] c \in {"f", "F"} -> 15

\* a segment without a bad escape, every %XX replaced by the byte XX
RECURSIVE Unescaped(_)
Unescaped(seg) ==
    IF seg = <<>> THEN <<>>
    ELSE IF Head(seg) # "%" THEN <<Head(seg)>> \o Unescaped(Tail(seg))
    ELSE <<byteChars[16 * HexVal(seg[2]) + HexVal(seg[3]) + 1]>>
            \o Unescaped(SubSeq(seg, 4, Len(seg)))

\* C22: in the path namespace every static segment is percent-decoded after
\* the pattern was split on '/', each %XX giving one byte, so that an
\* escaped slash stays inside its segment; a '%' that two hex digits do not
\* follow makes parse fail; the segments of a host pattern are left as they
\* are written.
C22_StaticSegmentsDecoded ==
    output.done =>
        /\ (\E k \in 1..Len(PathSegments(input)) :
                BadEscape(PathSegments(input)[k])) => output.part000.err
        /\ ~output.part000.err =>
              /\ Len(output.part000.dst) = Len(PathSegments(input))
              /\ \A k \in 1..Len(output.part000.dst) :
                    output.part000.dst[k].typ = staticPart =>
                       output.part000.dst[k].val
                          = Unescaped(PathSegments(input)[k])
        /\ ~output.host.err =>
              /\ Len(output.host.dst) = Len(SegmentsOf(input, "."))
              /\ \A k \in 1..Len(output.host.dst) :
                    output.host.dst[k].typ = staticPart =>
                       output.host.dst[k].val = SegmentsOf(input, ".")[k]

\* /foo%2fbar was parsed as the one static segment foo/bar, and as a host
\* it is one segment that keeps its escape
C22_Witness ==
    /\ output.done
    /\ input = <<"/", "f", "o", "o", "%", "2", "f", "b", "a", "r">>
    /\ output.part000
          = [err |-> FALSE,
             dst |-> <<[typ |-> staticPart, val |-> <<"f", "o", "o", "/", "b", "a", "r">>]>>]
    /\ output.host = [err |-> FALSE, dst |-> <<[typ |-> staticPart, val |-> input]>>]

\* C23: a pattern with a trailing slash and the same pattern without it are
\* two routes that can both be registered, and a request path is matched
\* only to the one whose trailing slash agrees with it: to that route when
\* it is registered, to none otherwise.
C23_TrailingSlashDistinct ==
    /\ (ret.op = "Route" /\ ret.pattern \in SlashPatterns) =>
          ~ret.panic /\ ret.pattern \in DOMAIN routes
    /\ (ret.op = "match" /\ ret.path \in SlashPatterns) =>
          ret.route = IF ret.path \in DOMAIN routes THEN ret.path ELSE NIL
    /\ (mret.op = "Route" /\ mret.pattern \in SlashPatterns) =>
          ~mret.panic /\ mret.pattern \in DOMAIN Routes
    /\ (mret.op = "Match" /\ mret.path \in SlashPatterns) =>
          mret.route = IF mret.path \in DOMAIN Routes THEN mret.path ELSE NIL

\* C24: once the build phase has ended, no step of a match (the walk of the
\* trie, the handler selection, the variable extraction) changes the trie,
\* the route table, the handler tables or the name index, and every request
\* served while others are in flight gets a route, a handler and bindings
\* that a sequential Match of the same request returns.
C24_ConcurrentMatchesReadOnly ==
    [][serving =>
          /\ <<root, nleaf, patterns, Routes, heap, NamedRoutes>>'
                = <<root, nleaf, patterns, Routes, heap, NamedRoutes>>
          /\ \A g \in Goroutines :
                inflight'[g].pc = "done" =>
                   inflight'[g].result
                      \in matcher_Match([root |-> root', nleaf |-> nleaf',
                                         patterns |-> patterns'], heap',
                                        inflight'[g].path, inflight'[g].method)]_vars

\* GET /a/c was answered by the route /a/:x with x = c while another request
\* was in the middle of its walk
C24_Witness ==
    /\ serving
    /\ inflight[1].pc = "done"
    /\ inflight[1].path = req_a_c
    /\ inflight[1].result.route = mp_a_x
    /\ inflight[1].result.handler = boundHandler("h1")
    /\ inflight[1].result.values = <<<<"c">>>>
    /\ inflight[2].pc = "walk"
    /\ inflight[2].n # <<>>

\* the middleware chain a router holds
Chain(rt) == contents(arrays, routers[rt].Middleware)

\* whether the route of the router rt has its handler bound
Bound(rt) == rt \in DOMAIN mroutes /\ "" \in DOMAIN mroutes[rt].Handlers

\* C25: Handle wraps the handler with the middleware chain that the route's
\* router holds at the moment of the call, the first middleware passed to
\* Use outermost and the last next to the handler; no later call changes
\* what wraps a handler that is bound.
C25_MiddlewareFixedAtHandle ==
    [][\A rt \in DOMAIN routers :
          /\ (uret'.op = "Handle" /\ uret'.router = rt) =>
                Route_handler(uver', arrays', mroutes'[rt]) = Chain(rt) \o <<"h1">>
          /\ (Bound(rt) /\ ~(uret'.op = "Handle" /\ uret'.router = rt)) =>
                Route_handler(uver', arrays', mroutes'[rt])
                   = Route_handler(uver, arrays, mroutes[rt])]_vars

\* C28: Use on a sub-router created by Group (or Sub) changes neither the
\* middleware chain of its parent nor that of a sibling created from the
\* same parent.
C28_UseLeavesOtherRoutersAlone ==
    [][\A g \in DOMAIN routers :
          (uret'.op = "Use" /\ uret'.router = g /\ routers[g].from # "") =>
             \A x \in DOMAIN routers \ {g} :
                (x = routers[g].from \/ routers[x].from = routers[g].from) =>
                   contents(arrays', routers'[x].Middleware) = Chain(x)]_vars

RECURSIVE RegisteredInOrder(_, _, _)
RegisteredInOrder(S, i, rt) ==
    IF i > Len(matchTests) THEN rt
    ELSE IF matchTests[i].pattern \in S
    THEN RegisteredInOrder(S, i + 1, Router_route(rt, matchTests[i].pattern))
    ELSE RegisteredInOrder(S, i + 1, rt)

\* the route a new router with the patterns S, registered in the order of
\* matchTests, returns for the request
MatchInOrder(S, scheme, host, path) ==
    LET rt == RegisteredInOrder(S, 1, [mtype |-> "path", edges |-> {<<>>},
                                       leaf |-> << >>, routes |-> << >>,
                                       ret |-> NoReturn])
    IN Router_match(rt.mtype, rt.edges, rt.leaf, scheme, host, path)

\* C27: the route Match returns for a request depends only on the set of
\* the registered patterns: whatever the order of the registrations was,
\* path-only patterns before or after the promotion of the matcher to a
\* host-wrapped or scheme-wrapped trie, it is the route returned when the
\* same patterns are registered in the order of matchTests.
C27_OrderIndependent ==
    ret.op = "match" =>
        ret.route = MatchInOrder(DOMAIN routes, ret.scheme, ret.host, ret.path)

\* all seven patterns of matchTests are registered, the matcher is wrapped
\* in a scheme level, and a request returned the path-only route /a/{b}/{*}
C27_Witness ==
    /\ ret.op = "match"
    /\ mtype = "scheme"
    /\ DOMAIN routes = {matchTests[i].pattern : i \in 1..Len(matchTests)}
    /\ ret.route = matchTests[3].pattern

\* C29: Build does not modify the bindings it is given: after every call
\* the slice holds the names and values it held at the call, and a second
\* Build of the same route with the same slice returns the URL and the
\* error of the first.
C29_BuildLeavesBindings ==
    [][/\ mret'.op = "Build" => mret'.after = mret'.vars
       /\ mret'.op = "Build" /\ mret'.again =>
              mret'.url = mret.url /\ mret'.err = mret.err]_vars

\* C30: the map of the process holds an entry for a request only while the
\* request's call of ServeHTTP runs: no entry for a request that was not
\* served yet, whose ServeHTTP returned, or whose ServeHTTP unwound in a
\* panic, so that the map is empty when no request is in flight.
C30_VarsOnlyWhileServing ==
    \A q \in DOMAIN varsMap : calls[q].pc \notin {"new", "returned", "unwound"}

=============================================================================
